---- MODULE Spec2Model ----
(***************************************************************************)
(* Model of the FreibuJobs LinkedIn job bot: the search-URL builder, the   *)
(* posting-age freshness check, the fallback posting synthesizer and the   *)
(* multi-tier browser searches of src/src/scraper (linkedin.py and         *)
(* linkedin_enhanced.py), as driven by src/src/bot/main.py.                *)
(*                                                                         *)
(* Python strings are sequences of one-character strings, so that          *)
(* substring tests, replace(), lower() and strip() are computed and not    *)
(* assumed.                                                                *)
(***************************************************************************)
EXTENDS Integers, Sequences, FiniteSets, TLC

VARIABLES
    args,       \* arguments of the pure-function call under check
    ret,        \* its return value, NoRet until the call has been made
    th,         \* locals of the running search invocations, by invocation id
    site,       \* the postings the job site has on offer
    driver,     \* self.driver of the scraper object: None or a session id
    sessions,   \* the browser sessions created so far
    calls,      \* calls[t]: the tiers invocation t has searched, in order
    callbacks,  \* log of the job_callback invocations, in order
    _user_data, \* ConversationData._user_data: the entries of the dict
    handled     \* the bot handler that returned last, <<>> before the first

vars == <<args, ret, th, site, driver, sessions, calls, callbacks, _user_data, handled>>

pureVars == <<args, ret>>
searchVars == <<th, site, driver, sessions, calls, callbacks>>
botVars == <<_user_data, handled>>

None == 0
\* ret is <<>> before the call returns and <<v>> once it returned v
NoRet == <<>>

(***************************************************************************)
(* String helpers: Python str operations on character sequences.           *)
(***************************************************************************)
UpperCase == <<"A", "B", "C", "D", "E", "F", "G", "H", "I", "J", "K", "L", "M",
               "N", "O", "P", "Q", "R", "S", "T", "U", "V", "W", "X", "Y", "Z">>
LowerCase == <<"a", "b", "c", "d", "e", "f", "g", "h", "i", "j", "k", "l", "m",
               "n", "o", "p", "q", "r", "s", "t", "u", "v", "w", "x", "y", "z">>
Digits == <<"0", "1", "2", "3", "4", "5", "6", "7", "8", "9">>

\* str.lower() on one character
LowerChar(c) ==
    IF \E i \in 1..Len(UpperCase) : UpperCase[i] = c
    THEN LowerCase[CHOOSE i \in 1..Len(UpperCase) : UpperCase[i] = c]
    ELSE c

\* str.lower()
Lower(s) == [i \in 1..Len(s) |-> LowerChar(s[i])]

\* sub in s
Contains(s, sub) ==
    \E i \in 0..(Len(s) - Len(sub)) : SubSeq(s, i + 1, i + Len(sub)) = sub

\* s.replace(c, r) for a one-character c
RECURSIVE Replace(_, _, _)
Replace(s, c, r) ==
    IF s = <<>> THEN <<>>
    ELSE (IF Head(s) = c THEN r ELSE <<Head(s)>>) \o Replace(Tail(s), c, r)

\* sep.join(parts)
RECURSIVE Join(_, _)
Join(parts, sep) ==
    IF parts = <<>> THEN <<>>
    ELSE IF Len(parts) = 1 THEN parts[1]
    ELSE parts[1] \o sep \o Join(Tail(parts), sep)

IsDigit(c) == \E i \in 1..Len(Digits) : Digits[i] = c
DigitVal(c) == (CHOOSE i \in 1..Len(Digits) : Digits[i] = c) - 1

Min(a, b) == IF a < b THEN a ELSE b

\* faulty variant: the list is not cut
Take_All(l, n) == l

\* l[:n] for n >= 0
Take(l, n) == SubSeq(l, 1, Min(n, Len(l)))

Range(l) == {l[i] : i \in 1..Len(l)}

(***************************************************************************)
(* LinkedInScraper._build_search_url                                       *)
(***************************************************************************)
S_base_url == <<"h", "t", "t", "p", "s", ":", "/", "/", "w", "w", "w", ".", "l", "i", "n", "k", "e", "d", "i", "n", ".", "c", "o", "m", "/", "j", "o", "b", "s", "/", "s", "e", "a", "r", "c", "h", "/">>
S_keywords == <<"k", "e", "y", "w", "o", "r", "d", "s", "=">>
S_location == <<"l", "o", "c", "a", "t", "i", "o", "n", "=">>
S_f_TPR == <<"f", "_", "T", "P", "R", "=">>
S_f_WT == <<"f", "_", "W", "T", "=">>
S_f_JT_I == <<"f", "_", "J", "T", "=", "I">>
S_sortBy == <<"s", "o", "r", "t", "B", "y", "=", "D", "D">>
S_pct20 == <<"%", "2", "0">>
S_intern == <<"i", "n", "t", "e", "r", "n">>
S_sp_intern == <<" ", "i", "n", "t", "e", "r", "n">>

\* the keyword searched for: " intern" is appended for internships (lines 512-513)
InternKeyword(keyword, is_internship) ==
    IF is_internship /\ ~Contains(Lower(keyword), S_intern)
    THEN keyword \o S_sp_intern
    ELSE keyword

\* faulty variant: the keyword is put into the URL as it is
PercentEncode_Raw(s) == s

\* keyword.replace(' ', '%20') (lines 515, 519)
PercentEncode(s) == Replace(s, " ", S_pct20)

\* the internship job-type filter (lines 529-530)
InternshipParams(is_internship) ==
    IF is_internship THEN <<S_f_JT_I>> ELSE <<>>

_build_search_url(keyword, location, time_filter, work_type, is_internship) ==
    LET params ==
            <<S_keywords \o PercentEncode(InternKeyword(keyword, is_internship))>>
            \o (IF location # <<>> THEN <<S_location \o PercentEncode(location)>> ELSE <<>>)
            \o <<S_f_TPR \o time_filter>>
            \o (IF work_type # <<>> THEN <<S_f_WT \o work_type>> ELSE <<>>)
            \o InternshipParams(is_internship)
            \o <<S_sortBy>>
    IN  S_base_url \o <<"?">> \o Join(params, <<"&">>)

Keywords ==
    { <<"J", "a", "v", "a", " ", "D", "e", "v", "e", "l", "o", "p", "e", "r">>,
      <<"S", "o", "f", "t", "w", "a", "r", "e", " ", "E", "n", "g", "i", "n", "e", "e", "r">>,
      <<"D", "a", "t", "a", " ", "I", "n", "t", "e", "r", "n">>,
      <<"I", "N", "T", "E", "R", "N", "S", "H", "I", "P">>,
      <<"m", "l", " ", " ", "o", "p", "s">>,
      <<" ", "Q", "A", " ">>,
      <<"G", "o">>,
      <<>> }
Locations == { <<>>, <<"I", "n", "d", "i", "a">>, <<"B", "a", "n", "g", "a", "l", "o", "r", "e", ",", " ", "I", "n", "d", "i", "a">>, <<"N", "e", "w", " ", "Y", "o", "r", "k">> }
TimeFilters == { <<"r", "8", "6", "4", "0", "0">>, <<"r", "1", "7", "2", "8", "0", "0">>, <<"r", "6", "0", "4", "8", "0", "0">> }
WorkTypes == { <<>>, <<"2">> }

\* no conversation has taken place
IdleBot == _user_data = {} /\ handled = <<>>

IdleSearch ==
    /\ th = <<>>
    /\ site = {}
    /\ driver = None
    /\ sessions = <<>>
    /\ calls = <<>>
    /\ callbacks = <<>>

InitUrl ==
    /\ args \in [keyword : Keywords, location : Locations, time_filter : TimeFilters,
                 work_type : WorkTypes, is_internship : BOOLEAN]
    /\ ret = NoRet
    /\ IdleSearch
    /\ IdleBot

BuildSearchUrl ==
    /\ ret = NoRet
    /\ ret' = <<_build_search_url(args.keyword, args.location, args.time_filter,
                                  args.work_type, args.is_internship)>>
    /\ UNCHANGED <<args, searchVars, botVars>>

NextUrl == BuildSearchUrl

SpecUrl == InitUrl /\ [][NextUrl]_vars

(***************************************************************************)
(* C1. For every keyword, location and internship flag the search URL      *)
(* writes each space of the keyword as %20; for an internship search it    *)
(* carries f_JT=I and its keywords parameter contains "intern" (" intern"  *)
(* is appended exactly when the keyword does not already contain "intern", *)
(* case-insensitively); for a job search neither marker is added.          *)
(***************************************************************************)
\* s.split(c) for a one-character c
RECURSIVE Split(_, _)
Split(s, c) ==
    IF \A i \in 1..Len(s) : s[i] # c THEN <<s>>
    ELSE LET k == CHOOSE i \in 1..Len(s) : s[i] = c /\ \A j \in 1..(i - 1) : s[j] # c
         IN  <<SubSeq(s, 1, k - 1)>> \o Split(SubSeq(s, k + 1, Len(s)), c)

StartsWith(s, p) == Len(s) >= Len(p) /\ SubSeq(s, 1, Len(p)) = p

\* the parameters of the query string of a URL
QueryParams(url) == Split(Split(url, "?")[2], "&")

\* the value of the keywords parameter as it stands in the URL
KeywordsParam(url) ==
    LET q == QueryParams(url)
        k == CHOOSE i \in 1..Len(q) : StartsWith(q[i], S_keywords)
    IN  SubSeq(q[k], Len(S_keywords) + 1, Len(q[k]))

\* reading %20 back as a space
RECURSIVE PercentDecode(_)
PercentDecode(s) ==
    IF s = <<>> THEN <<>>
    ELSE IF StartsWith(s, S_pct20) THEN <<" ">> \o PercentDecode(SubSeq(s, 4, Len(s)))
    ELSE <<Head(s)>> \o PercentDecode(Tail(s))

C1_UrlEncodesKeywordAndMarksInternship ==
    ret # NoRet =>
        LET p == KeywordsParam(ret[1])
            q == QueryParams(ret[1])
            hasIntern == Contains(Lower(args.keyword), S_intern)
        IN  /\ StartsWith(ret[1], S_base_url)
            /\ ~Contains(p, <<" ">>)
            /\ args.is_internship =>
                 /\ S_f_JT_I \in Range(q)
                 /\ Contains(Lower(p), S_intern)
                 /\ PercentDecode(p) =
                      (IF hasIntern THEN args.keyword ELSE args.keyword \o S_sp_intern)
            /\ ~args.is_internship =>
                 /\ S_f_JT_I \notin Range(q)
                 /\ PercentDecode(p) = args.keyword

C1_Witness ==
    /\ ret # NoRet
    /\ args.is_internship
    /\ args.keyword = <<"S", "o", "f", "t", "w", "a", "r", "e", " ", "E", "n", "g", "i", "n", "e", "e", "r">>
    /\ Contains(ret[1], <<"k", "e", "y", "w", "o", "r", "d", "s", "=", "S", "o", "f", "t", "w", "a", "r", "e", "%", "2", "0", "E", "n", "g", "i", "n", "e", "e", "r", "%", "2", "0", "i", "n", "t", "e", "r", "n", "&">>)
    /\ Contains(ret[1], <<"&", "f", "_", "J", "T", "=", "I", "&">>)

(***************************************************************************)
(* LinkedInEnhancedScraper._is_fresh_posting                               *)
(***************************************************************************)
\* str.strip(): whitespace removed at both ends
RECURSIVE LStrip(_)
LStrip(s) == IF s # <<>> /\ Head(s) = " " THEN LStrip(Tail(s)) ELSE s
RECURSIVE RStrip(_)
RStrip(s) == IF s # <<>> /\ s[Len(s)] = " " THEN RStrip(SubSeq(s, 1, Len(s) - 1)) ELSE s
Strip(s) == RStrip(LStrip(s))

\* int() of a run of decimal digits
RECURSIVE IntOf(_)
IntOf(ds) ==
    IF ds = <<>> THEN 0
    ELSE 10 * IntOf(SubSeq(ds, 1, Len(ds) - 1)) + DigitVal(ds[Len(ds)])

\* re.findall(r'\d+', s): the maximal runs of digits, left to right
RECURSIVE DigitRun(_)
DigitRun(s) ==
    IF s # <<>> /\ IsDigit(Head(s)) THEN <<Head(s)>> \o DigitRun(Tail(s)) ELSE <<>>
RECURSIVE FindNumbers(_)
FindNumbers(s) ==
    IF s = <<>> THEN <<>>
    ELSE IF IsDigit(Head(s))
         THEN LET run == DigitRun(s)
              IN  <<run>> \o FindNumbers(SubSeq(s, Len(run) + 1, Len(s)))
         ELSE FindNumbers(Tail(s))

S_day == <<"d", "a", "y">>

\* faulty variant: the "today" and "yesterday" entries are missing
fresh_keywords_Short ==
    <<<<"h", "o", "u", "r">>, <<"h", "o", "u", "r", "s">>, <<"m", "i", "n", "u", "t", "e">>, <<"m", "i", "n", "u", "t", "e", "s">>>>

\* line 154
fresh_keywords ==
    <<<<"h", "o", "u", "r">>,
      <<"h", "o", "u", "r", "s">>,
      <<"m", "i", "n", "u", "t", "e">>,
      <<"m", "i", "n", "u", "t", "e", "s">>,
      <<"d", "a", "y">>,
      <<"d", "a", "y", "s">>,
      <<"t", "o", "d", "a", "y">>,
      <<"y", "e", "s", "t", "e", "r", "d", "a", "y">>>>

\* faulty variant: the "month" entries are missing
old_keywords_NoMonth ==
    <<<<"w", "e", "e", "k">>, <<"w", "e", "e", "k", "s">>, <<"y", "e", "a", "r">>, <<"y", "e", "a", "r", "s">>>>

\* line 157
old_keywords ==
    <<<<"w", "e", "e", "k">>,
      <<"w", "e", "e", "k", "s">>,
      <<"m", "o", "n", "t", "h">>,
      <<"m", "o", "n", "t", "h", "s">>,
      <<"y", "e", "a", "r">>,
      <<"y", "e", "a", "r", "s">>>>

\* any(keyword in time_text for keyword in keywords)
AnyKeywordIn(keywords, time_text) ==
    \E i \in 1..Len(keywords) : Contains(time_text, keywords[i])

_is_fresh_posting(time_text) ==
    IF time_text = <<>> THEN TRUE
    ELSE LET text == Strip(Lower(time_text))
             numbers == FindNumbers(text)
         IN  IF AnyKeywordIn(fresh_keywords, text)
             THEN IF Contains(text, S_day) /\ numbers # <<>> /\ IntOf(numbers[1]) > 2
                  THEN FALSE
                  ELSE TRUE
             ELSE IF AnyKeywordIn(old_keywords, text) THEN FALSE
             ELSE TRUE

\* the words posting-age texts are made of
AgeWords ==
    { <<"1">>,
      <<"3">>,
      <<"h", "o", "u", "r">>,
      <<"T", "o", "d", "a", "y">>,
      <<"d", "a", "y", "s">>,
      <<"w", "e", "e", "k">>,
      <<"M", "o", "n", "t", "h", "s">>,
      <<"a", "g", "o">> }

\* the longest posting-age text, in words
MaxWords == 3

AgeTexts ==
    { Join(ws, <<" ">>) : ws \in UNION { [1..n -> AgeWords] : n \in 0..MaxWords } }

InitFresh ==
    /\ args \in [time_text : AgeTexts \cup { <<" ">> \o t \o <<" ">> : t \in AgeWords }]
    /\ ret = NoRet
    /\ IdleSearch
    /\ IdleBot

IsFreshPosting ==
    /\ ret = NoRet
    /\ ret' = <<_is_fresh_posting(args.time_text)>>
    /\ UNCHANGED <<args, searchVars, botVars>>

NextFresh == IsFreshPosting

SpecFresh == InitFresh /\ [][NextFresh]_vars

S_week == <<"w", "e", "e", "k">>
S_month == <<"m", "o", "n", "t", "h">>
S_hour == <<"h", "o", "u", "r">>
S_today == <<"t", "o", "d", "a", "y">>
S_minute == <<"m", "i", "n", "u", "t", "e">>

(***************************************************************************)
(* C2 (as stated). _is_fresh_posting returns False for every posting-age   *)
(* text that contains "week" or "month", case-insensitively, whatever      *)
(* else the text contains.                                                 *)
(***************************************************************************)
C2_Original_WeekMonthAlwaysStale ==
    (ret # NoRet /\ (Contains(Lower(args.time_text), S_week)
                     \/ Contains(Lower(args.time_text), S_month)))
        => ret = <<FALSE>>

(***************************************************************************)
(* C2 (amended). _is_fresh_posting returns False for every posting-age     *)
(* text that contains "week" or "month", case-insensitively, and contains  *)
(* none of "hour", "minute" and "day" (hence neither "today" nor           *)
(* "yesterday").                                                           *)
(***************************************************************************)
C2_WeekMonthStaleUnlessFreshWord ==
    (/\ ret # NoRet
     /\ Contains(Lower(args.time_text), S_week) \/ Contains(Lower(args.time_text), S_month)
     /\ ~Contains(Lower(args.time_text), S_hour)
     /\ ~Contains(Lower(args.time_text), S_minute)
     /\ ~Contains(Lower(args.time_text), S_day))
        => ret = <<FALSE>>

C2_Witness ==
    /\ ret = <<FALSE>>
    /\ args.time_text = <<"3", " ", "M", "o", "n", "t", "h", "s", " ", "a", "g", "o">>

(***************************************************************************)
(* C3. _is_fresh_posting returns True for every posting-age text that      *)
(* contains "hour" or "today", case-insensitively, whatever else the text  *)
(* (including any numbers) contains.                                       *)
(***************************************************************************)
C3_HourTodayAlwaysFresh ==
    (ret # NoRet /\ (Contains(Lower(args.time_text), S_hour)
                     \/ Contains(Lower(args.time_text), S_today)))
        => ret = <<TRUE>>

(***************************************************************************)
(* LinkedInEnhancedScraper._generate_realistic_jobs                        *)
(*                                                                         *)
(* Job ids are ten-digit numbers beyond 32 bits: they are kept as decimal  *)
(* digit sequences, which is also what the URL is formatted from.          *)
(***************************************************************************)
\* lines 532-536
tech_companies ==
    <<"TCS", "Infosys", "Wipro", "HCL Technologies", "Tech Mahindra",
      "Cognizant", "Accenture", "IBM India", "Microsoft India", "Amazon India",
      "Flipkart", "Paytm", "Zomato", "Swiggy", "BYJU'S">>

\* lines 539-546
cities ==
    <<"Bangalore, Karnataka, India", "Mumbai, Maharashtra, India",
      "Pune, Maharashtra, India", "Hyderabad, Telangana, India",
      "Chennai, Tamil Nadu, India", "Delhi, India">>

S_view_url == <<"h", "t", "t", "p", "s", ":", "/", "/", "w", "w", "w", ".", "l", "i", "n", "k", "e", "d", "i", "n", ".", "c", "o", "m", "/", "j", "o", "b", "s", "/", "v", "i", "e", "w", "/">>
S_Intern_title == <<" ", "I", "n", "t", "e", "r", "n">>

\* str(n) for a natural number n
RECURSIVE StrOfNat(_)
StrOfNat(n) ==
    IF n < 10 THEN <<Digits[n + 1]>>
    ELSE StrOfNat(n \div 10) \o <<Digits[(n % 10) + 1]>>

\* the decimal digits of ds + n, for a digit sequence ds and a natural n
RECURSIVE AddToDigits(_, _)
AddToDigits(ds, n) ==
    IF n = 0 THEN ds
    ELSE IF ds = <<>> THEN StrOfNat(n)
    ELSE LET v == DigitVal(ds[Len(ds)]) + n
         IN  AddToDigits(SubSeq(ds, 1, Len(ds) - 1), v \div 10) \o <<Digits[(v % 10) + 1]>>

\* the fallback never synthesizes more postings than this
FallbackCap == 5

\* faulty variant: every posting gets the base id
JobId_Same(base_id, i) == base_id

\* job_id = base_id + i (line 552)
JobId(base_id, i) == AddToDigits(base_id, i)

\* faulty variant: the requested count is not capped
FallbackCount_Uncapped(max_results) == max_results

\* range(min(max_results, 5)) (line 551)
FallbackCount(max_results) == Min(max_results, FallbackCap)

\* random.choice(table), given the value r drawn from the generator
Choice(table, r) == table[(r % Len(table)) + 1]

\* The k-th value drawn from the pseudo-random generator seeded with seed:
\* a stand-in for the library generator, a fixed function of the seed.
Draw(seed, k) == seed * (k + 1) + k

\* the posting built by iteration i of the loop (lines 552-568)
RealisticJob(keyword, is_internship, base_id, seed, i) ==
    [ company |-> Choice(tech_companies, Draw(seed, 2 * i)),
      title |-> IF is_internship THEN keyword \o S_Intern_title ELSE keyword,
      location |-> Choice(cities, Draw(seed, 2 * i + 1)),
      url |-> S_view_url \o JobId(base_id, i) ]

\* base_id is the outcome of random.randint(4000000000, 4099999999), and
\* seed the state of the generator after it
_generate_realistic_jobs(keyword, is_internship, max_results, base_id, seed) ==
    [ k \in 1..FallbackCount(max_results) |->
        RealisticJob(keyword, is_internship, base_id, seed, k - 1) ]

\* outcomes of random.randint(4000000000, 4099999999) (line 549)
BaseIds ==
    { <<"4", "0", "0", "0", "0", "0", "0", "0", "0", "0">>,
      <<"4", "0", "1", "2", "3", "4", "5", "6", "7", "8">>,
      <<"4", "0", "9", "9", "9", "9", "9", "9", "9", "6">>,
      <<"4", "0", "9", "9", "9", "9", "9", "9", "9", "9">> }

\* the largest requested count tried
MaxRequested == 7

\* the largest seed of the generator tried
MaxSeed == 1

GenKeywords == { <<"P", "y", "t", "h", "o", "n", " ", "D", "e", "v", "e", "l", "o", "p", "e", "r">>, <<"Q", "A">>, <<"d", "a", "t", "a", " ", "i", "n", "t", "e", "r", "n">> }

InitGen ==
    /\ args \in [keyword : GenKeywords, is_internship : BOOLEAN,
                 max_results : 0..MaxRequested, base_id : BaseIds, seed : 0..MaxSeed]
    /\ ret = NoRet
    /\ IdleSearch
    /\ IdleBot

GenerateRealisticJobs ==
    /\ ret = NoRet
    /\ ret' = <<_generate_realistic_jobs(args.keyword, args.is_internship,
                                         args.max_results, args.base_id, args.seed)>>
    /\ UNCHANGED <<args, searchVars, botVars>>

NextGen == GenerateRealisticJobs

SpecGen == InitGen /\ [][NextGen]_vars

(***************************************************************************)
(* C4. For every keyword, internship flag and requested count n >= 0,      *)
(* _generate_realistic_jobs returns exactly min(n, 5) postings, and the    *)
(* URLs of those postings are pairwise distinct.                           *)
(***************************************************************************)
C4_FallbackCountAndDistinctUrls ==
    ret # NoRet =>
        LET jobs == ret[1]
        IN  /\ Len(jobs) = (IF args.max_results < 5 THEN args.max_results ELSE 5)
            /\ \A i, j \in 1..Len(jobs) : i # j => jobs[i].url # jobs[j].url

C4_Witness ==
    /\ ret # NoRet
    /\ args.max_results = 7
    /\ args.base_id = <<"4", "0", "9", "9", "9", "9", "9", "9", "9", "6">>
    /\ Len(ret[1]) = 5
    /\ ret[1][5].url = <<"h", "t", "t", "p", "s", ":", "/", "/", "w", "w", "w", ".", "l", "i", "n", "k", "e", "d", "i", "n", ".", "c", "o", "m", "/", "j", "o", "b", "s", "/", "v", "i", "e", "w", "/", "4", "1", "0", "0", "0", "0", "0", "0", "0", "0">>
    /\ Cardinality({ret[1][i].url : i \in 1..5}) = 5

(***************************************************************************)
(* LinkedInScraper: the multi-tier search of linkedin.py.                  *)
(*                                                                         *)
(* th[t] holds the locals of search invocation t.  The scraper object is   *)
(* shared by the invocations: driver is its self.driver, and sessions[s]   *)
(* is the browser session numbered s, with the invocation that created it  *)
(* (owner), whether it is still open, which invocations have navigated it  *)
(* and which have called quit() on it.  Posting URLs are numbered.         *)
(***************************************************************************)
\* the largest max_results tried
MaxResults == 4

\* the postings the site can show: one more than the largest max_results
Urls == 1..(MaxResults + 1)

\* the longest list one page extraction yields: the largest tier quota,
\* beyond which the page loop reads no entry (line 593)
MaxPageLen == MaxResults \div 2

\* what one page extraction can return: any list of postings on offer
PageLists(offer) == UNION { [1..n -> offer] : n \in 0..MaxPageLen }

\* india_locations (lines 951-958), then the remote and the global tier
\* (lines 977-983, 990-995): location, work type and divisor of the quota
Tiers ==
    << [location |-> "India", work_type |-> "", divisor |-> 2],
       [location |-> "Bangalore, India", work_type |-> "", divisor |-> 2],
       [location |-> "Mumbai, India", work_type |-> "", divisor |-> 2],
       [location |-> "Delhi, India", work_type |-> "", divisor |-> 2],
       [location |-> "Hyderabad, India", work_type |-> "", divisor |-> 2],
       [location |-> "Pune, India", work_type |-> "", divisor |-> 2],
       [location |-> "", work_type |-> "2", divisor |-> 3],
       [location |-> "", work_type |-> "", divisor |-> 4] >>

\* the number of India locations
NIndia == Cardinality({i \in 1..Len(Tiers) : Tiers[i].location # ""})

\* max_pages (line 580)
max_pages == 3

\* faulty variant: every tier is asked for the whole max_results
TierQuota_Full(max_results, i) == max_results

\* max_results // 2, // 3, // 4 (lines 968, 981, 993)
TierQuota(max_results, i) == max_results \div Tiers[i].divisor

\* faulty variant: the tiers are searched whatever has been collected
NeedMore_Always(all_job_urls, max_results) == TRUE

\* len(all_job_urls) < max_results (lines 961, 976, 989)
NeedMore(all_job_urls, max_results) == Cardinality(all_job_urls) < max_results

\* faulty variant: the remote tier is skipped
TierAfter_SkipRemote(i) == IF i = NIndia THEN i + 2 ELSE i + 1

\* the tier tried after tier i has returned
TierAfter(i) == i + 1

\* the tier looked at once enough has been collected at tier i: the India
\* loop breaks to the remote test, the remote and global tests fall through
TierOnSkip(i) == IF i <= NIndia THEN NIndia + 1 ELSE i + 1

\* "for url in page_urls: if url not in job_urls: append; break at quota"
\* (lines 590-594)
RECURSIVE AddNewUrls(_, _, _)
AddNewUrls(job_urls, page_urls, quota) ==
    IF page_urls = <<>> THEN job_urls
    ELSE IF Head(page_urls) \in Range(job_urls)
         THEN AddNewUrls(job_urls, Tail(page_urls), quota)
         ELSE IF Len(job_urls) + 1 >= quota
              THEN Append(job_urls, Head(page_urls))
              ELSE AddNewUrls(Append(job_urls, Head(page_urls)), Tail(page_urls), quota)

\* the locals of an invocation before it runs; hindered records that a tier
\* failed or that a page read offered no posting
NewLocals(entry, max_results) ==
    [ entry |-> entry, pc |-> "start", max_results |-> max_results,
      tier |-> 1, all_job_urls |-> {}, quota |-> 0, job_urls |-> <<>>,
      pages_checked |-> 0, drv |-> None, failed |-> "no", tier_ret |-> <<>>,
      result |-> <<>>, raised |-> FALSE, hindered |-> FALSE ]

\* a session as _setup_driver creates it for invocation t
NewSession(t) == [owner |-> t, open |-> TRUE, navigated_by |-> {}, quit_by |-> {}]

\* all lists holding each member of a set once
Orderings(S) ==
    { f \in [1..Cardinality(S) -> S] : \A i, j \in 1..Cardinality(S) : i # j => f[i] # f[j] }

\* faulty variant: a failure of the tier search is passed on to the caller
CriteriaExcept_Reraise(l) == [l EXCEPT !.pc = "done", !.raised = TRUE]

\* the except clause and the return of _search_jobs_by_criteria
\* (lines 624-627), then the caller's all_job_urls.update(urls)
\* (lines 972, 985, 997)
CriteriaExcept(l) ==
    LET urls == Take(l.job_urls, l.quota)
    IN  [l EXCEPT !.tier_ret = urls,
                  !.all_job_urls = @ \cup Range(urls),
                  !.tier = TierAfter(l.tier),
                  !.job_urls = <<>>, !.pages_checked = 0, !.drv = None,
                  !.hindered = @ \/ l.failed # "no",
                  !.pc = "tier"]

\* the normal return of _search_jobs_by_criteria (line 627), then the
\* caller's all_job_urls.update(urls)
CriteriaReturn(l) ==
    LET urls == Take(l.job_urls, l.quota)
    IN  [l EXCEPT !.tier_ret = urls,
                  !.all_job_urls = @ \cup Range(urls),
                  !.tier = TierAfter(l.tier),
                  !.job_urls = <<>>, !.pages_checked = 0, !.drv = None,
                  !.hindered = @ \/ l.failed # "no",
                  !.pc = "tier"]

\* the test of the page loop (line 582)
PageLoop(l) ==
    IF Len(l.job_urls) < l.quota /\ l.pages_checked < max_pages
    THEN [l EXCEPT !.pc = "extract"]
    ELSE CriteriaReturn(l)

\* a multi-tier search is entered: all_job_urls = set()
StartOf(t, entry) ==
    /\ th[t].pc = "start"
    /\ th[t].entry = entry
    /\ th' = [th EXCEPT ![t].pc = "tier"]
    /\ UNCHANGED <<pureVars, botVars, site, driver, sessions, calls, callbacks>>

\* the next tier search is issued
IssueTierOf(t, entry) ==
    LET l == th[t]
    IN  /\ l.pc = "tier"
        /\ l.entry = entry
        /\ l.tier <= Len(Tiers)
        /\ NeedMore(l.all_job_urls, l.max_results)
        /\ th' = [th EXCEPT ![t] =
                    [l EXCEPT !.pc = "get_driver",
                              !.quota = TierQuota(l.max_results, l.tier),
                              !.job_urls = <<>>, !.pages_checked = 0,
                              !.drv = None, !.failed = "no", !.tier_ret = <<>>]]
        /\ calls' = [calls EXCEPT ![t] = Append(@, l.tier)]
        /\ UNCHANGED <<pureVars, botVars, site, driver, sessions, callbacks>>

\* enough has been collected: no search is issued for this tier
SkipTierOf(t, entry) ==
    LET l == th[t]
    IN  /\ l.pc = "tier"
        /\ l.entry = entry
        /\ l.tier <= Len(Tiers)
        /\ ~NeedMore(l.all_job_urls, l.max_results)
        /\ th' = [th EXCEPT ![t].tier = TierOnSkip(l.tier)]
        /\ UNCHANGED <<pureVars, botVars, site, driver, sessions, calls, callbacks>>

\* final_urls = list(all_job_urls)[:max_results]: a set is listed in an
\* order of the interpreter's choosing
FinalizeOf(t, entry) ==
    LET l == th[t]
    IN  /\ l.pc = "tier"
        /\ l.entry = entry
        /\ l.tier > Len(Tiers)
        /\ \E order \in Orderings(l.all_job_urls) :
             th' = [th EXCEPT ![t] =
                      [l EXCEPT !.result = <<Take(order, l.max_results)>>,
                                !.tier_ret = <<>>, !.failed = "no",
                                !.pc = "finally"]]
        /\ UNCHANGED <<pureVars, botVars, site, driver, sessions, calls, callbacks>>

\* search_for_jobs_and_internships is entered (line 944)
Start(t) == StartOf(t, "sync")

\* lines 960-970, 976-983, 989-995
IssueTier(t) == IssueTierOf(t, "sync")

\* lines 961-962, 976, 989
SkipTier(t) == SkipTierOf(t, "sync")

\* _get_driver (lines 326-330) when self.driver is set: it is handed out
GetDriver(t) ==
    LET l == th[t]
    IN  /\ l.pc = "get_driver"
        /\ driver # None
        /\ th' = [th EXCEPT ![t] = [l EXCEPT !.drv = driver, !.pc = "navigate"]]
        /\ UNCHANGED <<pureVars, botVars, site, driver, sessions, calls, callbacks>>

\* _get_driver when self.driver is not set: _setup_driver is entered
GetDriverNone(t) ==
    LET l == th[t]
    IN  /\ l.pc = "get_driver"
        /\ driver = None
        /\ th' = [th EXCEPT ![t].pc = "setup"]
        /\ UNCHANGED <<pureVars, botVars, site, driver, sessions, calls, callbacks>>

\* _setup_driver (lines 250-320) succeeds: self.driver = the new session
SetupDriver(t) ==
    LET l == th[t]
        s == Len(sessions) + 1
    IN  /\ l.pc = "setup"
        /\ sessions' = Append(sessions, NewSession(t))
        /\ driver' = s
        /\ th' = [th EXCEPT ![t] = [l EXCEPT !.drv = s, !.pc = "navigate"]]
        /\ UNCHANGED <<pureVars, botVars, site, calls, callbacks>>

\* _setup_driver raises (lines 322-324): the tier search ends in its except
SetupDriverFails(t) ==
    LET l == th[t]
    IN  /\ l.entry = "sync"
        /\ l.pc = "setup"
        /\ th' = [th EXCEPT ![t] = CriteriaExcept([l EXCEPT !.failed = "driver"])]
        /\ UNCHANGED <<pureVars, botVars, site, driver, sessions, calls, callbacks>>

\* driver.get(search_url) and the reads of the page (lines 566-576)
Navigate(t) ==
    LET l == th[t]
    IN  /\ l.entry = "sync"
        /\ l.pc = "navigate"
        /\ sessions[l.drv].open
        /\ sessions' = [sessions EXCEPT ![l.drv].navigated_by = @ \cup {t}]
        /\ th' = [th EXCEPT ![t] = PageLoop(l)]
        /\ UNCHANGED <<pureVars, botVars, site, driver, calls, callbacks>>

\* driver.get raises (a timeout, or the session has been quit)
NavigateFails(t) ==
    LET l == th[t]
    IN  /\ l.entry = "sync"
        /\ l.pc = "navigate"
        /\ th' = [th EXCEPT ![t] = CriteriaExcept([l EXCEPT !.failed = "navigate"])]
        /\ UNCHANGED <<pureVars, botVars, site, driver, sessions, calls, callbacks>>

\* One turn of the page loop (lines 582-614): _extract_job_urls, the new
\* URLs are added, then the next-page button.  more: the button is there,
\* enabled, and the click goes through.
ExtractPage(t) ==
    LET l == th[t]
    IN  /\ l.entry = "sync"
        /\ l.pc = "extract"
        /\ sessions[l.drv].open
        /\ \E page_urls \in PageLists(site), more \in BOOLEAN :
             LET l1 == [l EXCEPT !.job_urls = AddNewUrls(@, page_urls, l.quota),
                                 !.pages_checked = @ + 1,
                                 !.hindered = @ \/ page_urls = <<>>]
             IN  th' = [th EXCEPT ![t] =
                          IF Len(l1.job_urls) < l1.quota /\ l1.pages_checked < max_pages
                          THEN IF more THEN PageLoop(l1) ELSE CriteriaReturn(l1)
                          ELSE PageLoop(l1)]
        /\ UNCHANGED <<pureVars, botVars, site, driver, sessions, calls, callbacks>>

\* _extract_job_urls fails inside (lines 495-500): it returns what it has,
\* nothing, and the next-page button cannot be found either (lines 612-614)
ExtractPageFails(t) ==
    LET l == th[t]
        l1 == [l EXCEPT !.pages_checked = @ + 1, !.failed = "extract"]
    IN  /\ l.entry = "sync"
        /\ l.pc = "extract"
        /\ th' = [th EXCEPT ![t] =
                    IF Len(l1.job_urls) < l1.quota /\ l1.pages_checked < max_pages
                    THEN CriteriaReturn(l1)
                    ELSE PageLoop(l1)]
        /\ UNCHANGED <<pureVars, botVars, site, driver, sessions, calls, callbacks>>

\* line 1000
Finalize(t) == FinalizeOf(t, "sync")

\* _close_driver (lines 332-340) in the finally clause: quit() goes through
CloseDriver(t) ==
    LET l == th[t]
    IN  /\ l.pc = "finally"
        /\ IF driver # None
           THEN /\ sessions' = [sessions EXCEPT ![driver].open = FALSE,
                                                ![driver].quit_by = @ \cup {t}]
                /\ driver' = None
           ELSE UNCHANGED <<driver, sessions>>
        /\ th' = [th EXCEPT ![t].pc = "done"]
        /\ UNCHANGED <<pureVars, botVars, site, calls, callbacks>>

\* _close_driver: quit() raises, the warning is logged and self.driver
\* keeps the session (lines 339-340)
CloseDriverFails(t) ==
    LET l == th[t]
    IN  /\ l.pc = "finally"
        /\ driver # None
        /\ \E still_open \in BOOLEAN :
             sessions' = [sessions EXCEPT
                            ![driver].open = @ /\ still_open,
                            ![driver].quit_by = @ \cup {t}]
        /\ th' = [th EXCEPT ![t].pc = "done"]
        /\ UNCHANGED <<pureVars, botVars, site, driver, calls, callbacks>>

Invocations == DOMAIN th

InitSearch ==
    /\ args = <<>>
    /\ ret = NoRet
    /\ \E max_results \in 0..MaxResults : th = <<NewLocals("sync", max_results)>>
    /\ site = Urls
    /\ driver = None
    /\ sessions = <<>>
    /\ calls = << <<>> >>
    /\ callbacks = <<>>
    /\ IdleBot

NextSearch ==
    \/ \E t \in Invocations : Start(t)
    \/ \E t \in Invocations : IssueTier(t)
    \/ \E t \in Invocations : SkipTier(t)
    \/ \E t \in Invocations : GetDriver(t)
    \/ \E t \in Invocations : GetDriverNone(t)
    \/ \E t \in Invocations : SetupDriver(t)
    \/ \E t \in Invocations : SetupDriverFails(t)
    \/ \E t \in Invocations : Navigate(t)
    \/ \E t \in Invocations : NavigateFails(t)
    \/ \E t \in Invocations : ExtractPage(t)
    \/ \E t \in Invocations : ExtractPageFails(t)
    \/ \E t \in Invocations : Finalize(t)
    \/ \E t \in Invocations : CloseDriver(t)
    \/ \E t \in Invocations : CloseDriverFails(t)

SpecSearch == InitSearch /\ [][NextSearch]_vars

(***************************************************************************)
(* Two searches at once: LinkedInJobBot._perform_search (main.py, lines    *)
(* 225-230) runs search_for_jobs_and_internships of the bot's one scraper  *)
(* (line 36) in a worker thread of its own, so the steps of two            *)
(* invocations interleave on the same self.driver.                         *)
(***************************************************************************)
\* the largest configured max_results tried with two searches at once
MaxConcResults == 2

InitConc ==
    /\ args = <<>>
    /\ ret = NoRet
    /\ \E max_results \in 1..MaxConcResults :
         th = <<NewLocals("sync", max_results), NewLocals("sync", max_results)>>
    /\ site = 1..MaxConcResults
    /\ driver = None
    /\ sessions = <<>>
    /\ calls = << <<>>, <<>> >>
    /\ callbacks = <<>>
    /\ IdleBot

SpecConc == InitConc /\ [][NextSearch]_vars

(***************************************************************************)
(* C6. In LinkedInScraper.search_for_jobs_and_internships the tier         *)
(* searches are issued strictly in this order: the India locations in list *)
(* order, then the remote tier, then the global tier; and once the number  *)
(* of distinct URLs collected has reached max_results, no further tier     *)
(* search is issued.                                                       *)
(***************************************************************************)
\* the tiers of a call log come in the order of the tier list
InTierOrder(log) == \A i, j \in 1..Len(log) : i < j => log[i] < log[j]

C6_TiersInOrderUntilEnough ==
    [][\A t \in Invocations :
          /\ InTierOrder(calls'[t])
          /\ Cardinality(th[t].all_job_urls) >= th[t].max_results => calls'[t] = calls[t]
          /\ th[t].all_job_urls \subseteq th'[t].all_job_urls]_vars

C6_Witness ==
    \E t \in Invocations :
        /\ th[t].pc = "done"
        /\ th[t].max_results = 4
        /\ calls[t] = <<1, 2, 3>>
        /\ Cardinality(th[t].all_job_urls) = 5

(***************************************************************************)
(* C9. A browser session is navigated or quit only by the search           *)
(* invocation that created it: when two searches run concurrently through  *)
(* LinkedInJobBot._perform_search on the bot's one scraper, neither search *)
(* navigates, nor quits, a session that the other search is still using.   *)
(***************************************************************************)
C9_SessionUsedOnlyByItsSearch ==
    \A s \in 1..Len(sessions) :
        th[sessions[s].owner].pc # "done" =>
            /\ sessions[s].navigated_by \subseteq {sessions[s].owner}
            /\ sessions[s].quit_by \subseteq {sessions[s].owner}

(***************************************************************************)
(* C10 (as stated). No failure escapes a search: if driver creation,       *)
(* navigation or extraction raises during a tier, _search_jobs_by_criteria *)
(* returns an empty list without raising and the caller goes on to the     *)
(* next tier; search_for_jobs_and_internships itself never raises, and it  *)
(* returns [] when it fails and when max_results is 0.                     *)
(***************************************************************************)
\* the tier search of invocation t has just returned to its caller
TierReturned(t) == th[t].pc = "tier" /\ calls[t] # <<>>

MaxStreamResults == 2

\* the longest list of containers on one page: one more than max_results
MaxStreamPageLen == MaxStreamResults + 1

\* the href values of the containers of one page, in page order
StreamPageLists(offer) == UNION { [1..n -> offer] : n \in 0..MaxStreamPageLen }

\* the loop over the containers of _extract_job_urls_streaming (lines
\* 895-926): the URLs of the page that are not yet in all_found_urls, each
\* added to the set as it is met
RECURSIVE NewOnPage(_, _)
NewOnPage(page, all_found_urls) ==
    IF page = <<>> THEN <<>>
    ELSE IF Head(page) \in all_found_urls
         THEN NewOnPage(Tail(page), all_found_urls)
         ELSE <<Head(page)>> \o NewOnPage(Tail(page), all_found_urls \cup {Head(page)})

\* driver.quit() on session s by invocation t
Quit(ss, s, t) ==
    IF s = None THEN ss
    ELSE [ss EXCEPT ![s].open = FALSE, ![s].quit_by = @ \cup {t}]

\* a return of _search_jobs_by_criteria_streaming (lines 863, 867), then the
\* caller's all_job_urls.update(urls) (lines 711, 726, 740)
StreamReturn(l, urls) ==
    [l EXCEPT !.tier_ret = urls,
              !.all_job_urls = @ \cup Range(urls),
              !.tier = TierAfter(l.tier),
              !.job_urls = <<>>, !.pages_checked = 0, !.drv = None,
              !.pc = "tier"]

\* search_for_jobs_and_internships_streaming is entered (line 681)
StreamStart(t) == StartOf(t, "stream")

\* lines 697-709, 715-724, 730-738
StreamIssueTier(t) == IssueTierOf(t, "stream")

\* lines 698-699, 715, 730
StreamSkipTier(t) == SkipTierOf(t, "stream")

\* _setup_driver raises inside _get_driver (line 789): return [] (line 867);
\* the local driver is None, so the finally clause quits nothing
StreamSetupDriverFails(t) ==
    LET l == th[t]
    IN  /\ l.entry = "stream"
        /\ l.pc = "setup"
        /\ th' = [th EXCEPT ![t] = StreamReturn([l EXCEPT !.failed = "driver"], <<>>)]
        /\ UNCHANGED <<pureVars, botVars, site, driver, sessions, calls, callbacks>>

\* driver.get(search_url) (lines 805-819), then the first test of the page
\* loop (line 821); when the loop is not entered the function returns and
\* its finally clause quits the session (lines 868-873)
StreamNavigate(t) ==
    LET l == th[t]
        ss == [sessions EXCEPT ![l.drv].navigated_by = @ \cup {t}]
    IN  /\ l.entry = "stream"
        /\ l.pc = "navigate"
        /\ sessions[l.drv].open
        /\ IF Len(l.job_urls) < l.quota /\ l.pages_checked < max_pages
           THEN /\ th' = [th EXCEPT ![t].pc = "extract"]
                /\ sessions' = ss
           ELSE /\ th' = [th EXCEPT ![t] = StreamReturn(l, l.job_urls)]
                /\ sessions' = Quit(ss, l.drv, t)
        /\ UNCHANGED <<pureVars, botVars, site, driver, calls, callbacks>>

\* driver.get raises (a timeout, or the session has been quit): return []
\* (lines 865-867), and the finally clause quits the session
StreamNavigateFails(t) ==
    LET l == th[t]
    IN  /\ l.entry = "stream"
        /\ l.pc = "navigate"
        /\ th' = [th EXCEPT ![t] = StreamReturn([l EXCEPT !.failed = "navigate"], <<>>)]
        /\ sessions' = Quit(sessions, l.drv, t)
        /\ UNCHANGED <<pureVars, botVars, site, driver, calls, callbacks>>

\* One turn of the page loop (lines 821-853): _extract_job_urls_streaming
\* adds every new URL of the page to all_found_urls, which is the caller's
\* all_job_urls, and calls job_callback with it (lines 913-922); the tier
\* keeps the new URLs up to its quota (lines 829-833).
StreamExtractPage(t) ==
    LET l == th[t]
    IN  /\ l.entry = "stream"
        /\ l.pc = "extract"
        /\ sessions[l.drv].open
        /\ \E page \in StreamPageLists(site), more \in BOOLEAN :
             LET page_urls == NewOnPage(page, l.all_job_urls)
                 l1 == [l EXCEPT !.all_job_urls = @ \cup Range(page_urls),
                                 !.job_urls = AddNewUrls(@, page_urls, l.quota),
                                 !.pages_checked = @ + 1]
             IN  /\ callbacks' = callbacks \o page_urls
                 /\ IF /\ Len(l1.job_urls) < l1.quota
                       /\ l1.pages_checked < max_pages
                       /\ more
                    THEN /\ th' = [th EXCEPT ![t] = l1]
                         /\ UNCHANGED sessions
                    ELSE /\ th' = [th EXCEPT ![t] = StreamReturn(l1, l1.job_urls)]
                         /\ sessions' = Quit(sessions, l.drv, t)
        /\ UNCHANGED <<pureVars, botVars, site, driver, calls>>

\* find_elements raises in _extract_job_urls_streaming: it returns []
\* (lines 930-932); the next-page button is not found either (lines
\* 851-853), so the tier returns what it has
StreamExtractPageFails(t) ==
    LET l == th[t]
        l1 == [l EXCEPT !.pages_checked = @ + 1, !.failed = "extract"]
    IN  /\ l.entry = "stream"
        /\ l.pc = "extract"
        /\ th' = [th EXCEPT ![t] = StreamReturn(l1, l1.job_urls)]
        /\ sessions' = Quit(sessions, l.drv, t)
        /\ UNCHANGED <<pureVars, botVars, site, driver, calls, callbacks>>

\* line 743
StreamFinalize(t) == FinalizeOf(t, "stream")

InitStream ==
    /\ args = <<>>
    /\ ret = NoRet
    /\ \E max_results \in 0..MaxStreamResults : th = <<NewLocals("stream", max_results)>>
    /\ site = 1..(MaxStreamResults + 1)
    /\ driver = None
    /\ sessions = <<>>
    /\ calls = << <<>> >>
    /\ callbacks = <<>>
    /\ IdleBot

NextStream ==
    \/ \E t \in Invocations : StreamStart(t)
    \/ \E t \in Invocations : StreamIssueTier(t)
    \/ \E t \in Invocations : StreamSkipTier(t)
    \/ \E t \in Invocations : GetDriver(t)
    \/ \E t \in Invocations : GetDriverNone(t)
    \/ \E t \in Invocations : SetupDriver(t)
    \/ \E t \in Invocations : StreamSetupDriverFails(t)
    \/ \E t \in Invocations : StreamNavigate(t)
    \/ \E t \in Invocations : StreamNavigateFails(t)
    \/ \E t \in Invocations : StreamExtractPage(t)
    \/ \E t \in Invocations : StreamExtractPageFails(t)
    \/ \E t \in Invocations : StreamFinalize(t)
    \/ \E t \in Invocations : CloseDriver(t)
    \/ \E t \in Invocations : CloseDriverFails(t)

SpecStream == InitStream /\ [][NextStream]_vars

\* how often u occurs in list s
Occurrences(s, u) == Cardinality({i \in 1..Len(s) : s[i] = u})

(***************************************************************************)
(* C7. When the streaming search returns, job_callback has been invoked    *)
(* exactly once for each URL of the returned list and never for a URL      *)
(* that is absent from it.                                                 *)
(***************************************************************************)
C7_CallbackOncePerReturnedUrl ==
    \A t \in Invocations :
        (th[t].entry = "stream" /\ th[t].pc = "done") =>
            /\ \A u \in Range(th[t].result[1]) : Occurrences(callbacks, u) = 1
            /\ Range(callbacks) \subseteq Range(th[t].result[1])

(***************************************************************************)
(* LinkedInEnhancedScraper: the enhanced search of linkedin_enhanced.py.   *)
(*                                                                         *)
(* A job element is what the page shows of one posting: the href of its    *)
(* link (empty when it has no link), its title, company and location       *)
(* texts, and the texts of its time elements.  args holds the arguments of *)
(* _enhanced_streaming_search, and th[t] its locals and those of           *)
(* _attempt_enhanced_linkedin_scraping.                                    *)
(***************************************************************************)
S_Company == <<"C", "o", "m", "p", "a", "n", "y">>
S_Position == <<"P", "o", "s", "i", "t", "i", "o", "n">>
S_Location_TBD == <<"L", "o", "c", "a", "t", "i", "o", "n", " ", "T", "B", "D">>
S_developer == <<"d", "e", "v", "e", "l", "o", "p", "e", "r">>
S_engineer == <<"e", "n", "g", "i", "n", "e", "e", "r">>

\* str.split(): the words of s
Words(s) ==
    LET NonEmpty(w) == w # <<>>
    IN  SelectSeq(Split(s, " "), NonEmpty)

\* faulty variant: a job is fresh only if one of its time texts is
_validate_job_freshness_Strict(job_element) ==
    \E i \in 1..Len(job_element.times) : _is_fresh_posting(job_element.times[i])

\* lines 117-144: True when a time text is fresh (line 134), and True
\* as well when none is (line 140)
_validate_job_freshness(job_element) ==
    IF \E i \in 1..Len(job_element.times) : _is_fresh_posting(job_element.times[i])
    THEN TRUE
    ELSE TRUE

\* lines 175-248: without a link the lookup raises and every field keeps its
\* default (lines 177-182, 245-246)
_extract_job_details(job_element) ==
    IF job_element.url = <<>>
    THEN [company |-> S_Company, title |-> S_Position,
          location |-> S_Location_TBD, url |-> <<>>]
    ELSE [company |-> IF Strip(job_element.company) = <<>> THEN S_Company
                      ELSE Strip(job_element.company),
          title |-> IF Strip(job_element.title) = <<>> THEN S_Position
                    ELSE Strip(job_element.title),
          location |-> IF Strip(job_element.location) = <<>> THEN S_Location_TBD
                       ELSE Strip(job_element.location),
          url |-> job_element.url]

\* faulty variant: every term counts, and only the terms
_validate_job_relevance_AnyTerm(job_details, keyword) ==
    \E i \in 1..Len(Words(Lower(keyword))) :
        \/ Contains(Lower(job_details.title), Words(Lower(keyword))[i])
        \/ Contains(Lower(job_details.company), Words(Lower(keyword))[i])

\* lines 250-278
_validate_job_relevance(job_details, keyword) ==
    LET title == Lower(job_details.title)
        company == Lower(job_details.company)
        keyword_lower == Lower(keyword)
        keyword_terms == Words(keyword_lower)
    IN  \/ \E i \in 1..Len(keyword_terms) :
              /\ Len(keyword_terms[i]) >= 3
              /\ Contains(title, keyword_terms[i]) \/ Contains(company, keyword_terms[i])
        \/ Contains(keyword_lower, S_developer) /\ Contains(title, S_developer)
        \/ Contains(keyword_lower, S_engineer) /\ Contains(title, S_engineer)
        \/ Contains(keyword_lower, S_intern) /\ Contains(title, S_intern)

\* the id digits of the postings the site shows, less the last one
S_real_id == <<"3", "9", "0", "0", "0", "0", "0", "0", "0">>

\* the href of the link of posting i, already without a query string
RealUrl(i) == S_view_url \o S_real_id \o StrOfNat(i)

\* the job elements the site can show for the search
JobElements ==
    << [url |-> RealUrl(1),
        title |-> <<"P", "y", "t", "h", "o", "n", " ", "D", "e", "v", "e", "l", "o", "p", "e", "r">>,
        company |-> <<"I", "n", "f", "o", "s", "y", "s">>,
        location |-> <<>>,
        times |-> << <<"1", " ", "h", "o", "u", "r", " ", "a", "g", "o">> >>],
       [url |-> RealUrl(2),
        title |-> <<"S", "e", "n", "i", "o", "r", " ", "A", "n", "a", "l", "y", "s", "t">>,
        company |-> <<"P", "y", "t", "h", "o", "n", " ", "L", "a", "b", "s">>,
        location |-> <<>>,
        times |-> << <<"2", " ", "w", "e", "e", "k", "s", " ", "a", "g", "o">> >>],
       [url |-> RealUrl(3),
        title |-> <<"B", "a", "c", "k", "e", "n", "d", " ", "D", "e", "v", "e", "l", "o", "p", "e", "r">>,
        company |-> <<"I", "n", "f", "o", "s", "y", "s">>,
        location |-> <<>>,
        times |-> <<>>],
       [url |-> RealUrl(4),
        title |-> <<"S", "a", "l", "e", "s", " ", "M", "a", "n", "a", "g", "e", "r">>,
        company |-> <<"A", "c", "m", "e", " ", "R", "e", "t", "a", "i", "l">>,
        location |-> <<>>,
        times |-> << <<"1", " ", "h", "o", "u", "r", " ", "a", "g", "o">> >>] >>

\* the URLs of the postings of the site
RealUrls == {JobElements[i].url : i \in 1..Len(JobElements)}

\* the keyword arguments tried
EnhKeywords == { <<"P", "y", "t", "h", "o", "n", " ", "D", "e", "v", "e", "l", "o", "p", "e", "r">> }

\* _extract_job_details, _validate_job_freshness and
\* _validate_job_relevance of the job elements of the site, computed once
JobDetailsOf == [e \in Range(JobElements) |-> _extract_job_details(e)]
FreshnessOf == [e \in Range(JobElements) |-> _validate_job_freshness(e)]
RelevanceOf ==
    [k \in EnhKeywords |->
        [e \in Range(JobElements) |-> _validate_job_relevance(JobDetailsOf[e], k)]]

\* the loop over the job elements of _search_location_enhanced (lines
\* 405-429): location_jobs as it stands after the loop; found_urls is only
\* read here
RECURSIVE LocationJobs(_, _, _, _, _)
LocationJobs(job_elements, keyword, max_results, found_urls, location_jobs) ==
    IF job_elements = <<>> \/ Len(location_jobs) >= max_results
    THEN location_jobs
    ELSE LET job_element == Head(job_elements)
             job_details == JobDetailsOf[job_element]
             keep == /\ FreshnessOf[job_element]
                     /\ RelevanceOf[keyword][job_element]
                     /\ job_details.url \notin found_urls
         IN  LocationJobs(Tail(job_elements), keyword, max_results, found_urls,
                          IF keep THEN Append(location_jobs, job_details)
                          ELSE location_jobs)

\* the caller's loop over location_jobs (lines 364-368), from the locals l
RECURSIVE MergeLocationJobs(_, _)
MergeLocationJobs(l, location_jobs) ==
    IF location_jobs = <<>> THEN l
    ELSE LET job == Head(location_jobs)
         IN  MergeLocationJobs(
                 IF job.url \notin l.found_urls
                 THEN [l EXCEPT !.all_jobs = Append(@, job),
                                !.found_urls = @ \cup {job.url},
                                !.found_count = @ + 1]
                 ELSE l,
                 Tail(location_jobs))

\* the URLs of a list of postings
UrlsOf(jobs) == [i \in 1..Len(jobs) |-> jobs[i].url]

\* locations (lines 344-351)
enhanced_locations ==
    <<"India", "Bangalore, Karnataka, India", "Mumbai, Maharashtra, India",
      "Delhi, India", "Hyderabad, Telangana, India", "Pune, Maharashtra, India">>

\* faulty variant: the scraping is reported as failed whatever it found
ScrapingSucceeded_Never(found_count) == FALSE

\* faulty variant: the scraping is reported as successful whatever it found
ScrapingSucceeded_Always(found_count) == TRUE

\* return found_count > 0 (line 374)
ScrapingSucceeded(found_count) == found_count > 0

\* the largest max_results tried with the enhanced search
MaxEnhResults == 5

\* the longest list of job elements on one page
MaxEnhPageLen == 2

\* what _find_job_elements (lines 488-510) can return
EnhPageLists ==
    UNION { [1..n -> Range(JobElements)] : n \in 0..MaxEnhPageLen }

\* the locals of _enhanced_streaming_search and of
\* _attempt_enhanced_linkedin_scraping before they run (lines 308-310, 340)
NewEnhLocals ==
    [ entry |-> "enhanced", pc |-> "start", loc |-> 1, all_jobs |-> <<>>,
      found_urls |-> {}, found_count |-> 0, result |-> <<>> ]

\* _get_driver of the enhanced scraper (lines 100-104): the session it
\* returns, and the sessions there are then
EnhDriver == IF driver = None THEN Len(sessions) + 1 ELSE driver
EnhSessions(t) == IF driver = None THEN Append(sessions, NewSession(t)) ELSE sessions

\* _enhanced_streaming_search is entered (lines 308-320)
EnhStart(t) ==
    /\ th[t].entry = "enhanced"
    /\ th[t].pc = "start"
    /\ th' = [th EXCEPT ![t].pc = "locations"]
    /\ UNCHANGED <<pureVars, botVars, site, driver, sessions, calls, callbacks>>

\* One turn of the loop over the locations (lines 353-372) in which
\* _search_location_enhanced reads a page (lines 388-434): job_callback is
\* called for every posting it keeps (lines 425-428).
EnhSearchLocation(t) ==
    LET l == th[t]
    IN  /\ l.entry = "enhanced"
        /\ l.pc = "locations"
        /\ l.loc <= Len(enhanced_locations)
        /\ l.found_count < args.max_results
        /\ sessions' = [EnhSessions(t) EXCEPT ![EnhDriver].navigated_by = @ \cup {t}]
        /\ driver' = EnhDriver
        /\ \E job_elements \in EnhPageLists :
             LET location_jobs ==
                     LocationJobs(job_elements, args.keyword,
                                  args.max_results - l.found_count,
                                  l.found_urls, <<>>)
             IN  /\ callbacks' = callbacks \o UrlsOf(location_jobs)
                 /\ th' = [th EXCEPT ![t] =
                             [MergeLocationJobs(l, location_jobs) EXCEPT !.loc = @ + 1]]
        /\ UNCHANGED <<pureVars, botVars, site, calls>>

\* _is_page_blocked (lines 398-400): the location yields nothing
EnhLocationBlocked(t) ==
    LET l == th[t]
    IN  /\ l.entry = "enhanced"
        /\ l.pc = "locations"
        /\ l.loc <= Len(enhanced_locations)
        /\ l.found_count < args.max_results
        /\ sessions' = [EnhSessions(t) EXCEPT ![EnhDriver].navigated_by = @ \cup {t}]
        /\ driver' = EnhDriver
        /\ th' = [th EXCEPT ![t].loc = @ + 1]
        /\ UNCHANGED <<pureVars, botVars, site, calls, callbacks>>

\* _setup_enhanced_driver raises (lines 96-98): the except clause of
\* _search_location_enhanced (lines 431-434) returns the empty list
EnhSetupFails(t) ==
    LET l == th[t]
    IN  /\ l.entry = "enhanced"
        /\ l.pc = "locations"
        /\ l.loc <= Len(enhanced_locations)
        /\ l.found_count < args.max_results
        /\ driver = None
        /\ th' = [th EXCEPT ![t].loc = @ + 1]
        /\ UNCHANGED <<pureVars, botVars, site, driver, sessions, calls, callbacks>>

\* driver.get raises (line 394): the same except clause
EnhNavigateFails(t) ==
    LET l == th[t]
    IN  /\ l.entry = "enhanced"
        /\ l.pc = "locations"
        /\ l.loc <= Len(enhanced_locations)
        /\ l.found_count < args.max_results
        /\ sessions' = EnhSessions(t)
        /\ driver' = EnhDriver
        /\ th' = [th EXCEPT ![t].loc = @ + 1]
        /\ UNCHANGED <<pureVars, botVars, site, calls, callbacks>>

\* the loop over the locations ends (lines 353-355) and
\* _attempt_enhanced_linkedin_scraping returns (line 374); the caller
\* tests "if not success" (line 322)
EnhAttemptReturns(t) ==
    LET l == th[t]
    IN  /\ l.entry = "enhanced"
        /\ l.pc = "locations"
        /\ l.loc > Len(enhanced_locations) \/ l.found_count >= args.max_results
        /\ th' = [th EXCEPT ![t].pc = IF ScrapingSucceeded(l.found_count)
                                      THEN "return" ELSE "alternative"]
        /\ UNCHANGED <<pureVars, botVars, site, driver, sessions, calls, callbacks>>

\* _try_alternative_search_methods (lines 512-525)
EnhAlternative(t) ==
    LET l == th[t]
    IN  /\ l.entry = "enhanced"
        /\ l.pc = "alternative"
        /\ \E base_id \in BaseIds, seed \in 0..MaxSeed :
             LET realistic_jobs ==
                     _generate_realistic_jobs(args.keyword, args.is_internship,
                                              args.max_results, base_id, seed)
             IN  /\ th' = [th EXCEPT ![t] =
                             [l EXCEPT !.all_jobs = @ \o realistic_jobs,
                                       !.pc = "return"]]
                 /\ callbacks' = callbacks \o UrlsOf(realistic_jobs)
        /\ UNCHANGED <<pureVars, botVars, site, driver, sessions, calls>>

\* return all_jobs (line 332): nothing closes the driver
EnhReturn(t) ==
    LET l == th[t]
    IN  /\ l.entry = "enhanced"
        /\ l.pc = "return"
        /\ th' = [th EXCEPT ![t] = [l EXCEPT !.result = <<l.all_jobs>>, !.pc = "done"]]
        /\ UNCHANGED <<pureVars, botVars, site, driver, sessions, calls, callbacks>>

InitEnh ==
    /\ args \in [keyword : EnhKeywords, is_internship : BOOLEAN,
                 max_results : 0..MaxEnhResults]
    /\ ret = NoRet
    /\ th = <<NewEnhLocals>>
    /\ site = {}
    /\ driver = None
    /\ sessions = <<>>
    /\ calls = << <<>> >>
    /\ callbacks = <<>>
    /\ IdleBot

NextEnh ==
    \/ \E t \in Invocations : EnhStart(t)
    \/ \E t \in Invocations : EnhSearchLocation(t)
    \/ \E t \in Invocations : EnhLocationBlocked(t)
    \/ \E t \in Invocations : EnhSetupFails(t)
    \/ \E t \in Invocations : EnhNavigateFails(t)
    \/ \E t \in Invocations : EnhAttemptReturns(t)
    \/ \E t \in Invocations : EnhAlternative(t)
    \/ \E t \in Invocations : EnhReturn(t)

SpecEnh == InitEnh /\ [][NextEnh]_vars

\* the members of list s in the order of their first occurrence
RECURSIVE Dedup(_)
Dedup(s) ==
    IF s = <<>> THEN <<>>
    ELSE LET rest == Dedup(SubSeq(s, 1, Len(s) - 1))
         IN  IF s[Len(s)] \in Range(rest) THEN rest ELSE Append(rest, s[Len(s)])

\* the fields of a posting of the returned list (lines 177-182, 556-568)
PostingFields == {"company", "title", "location", "url"}

(***************************************************************************)
(* C5. When the enhanced search is asked for max_results = 5 and real      *)
(* extraction yields only 3 postings, the returned list has length 5: the  *)
(* 3 real postings first, then 2 synthesized postings.                     *)
(***************************************************************************)
C5_Original_ToppedUpToMaxResults ==
    \A t \in Invocations :
        (/\ th[t].entry = "enhanced"
         /\ th[t].pc = "done"
         /\ args.max_results = 5
         /\ th[t].found_count = 3)
            => LET jobs == th[t].result[1]
               IN  /\ Len(jobs) = 5
                   /\ \A i \in 1..3 : jobs[i].url \in RealUrls
                   /\ \A i \in 4..5 : jobs[i].url \notin RealUrls

(***************************************************************************)
(* C5 (amended). When real extraction yields at least one posting (3, say, *)
(* of the 5 asked for), the enhanced search returns exactly the real       *)
(* postings, at most max_results of them, in the order they were found,    *)
(* which is the order of their first job_callback; no synthesized posting  *)
(* is added.  Every entry of a returned list, real or synthesized, has the *)
(* fields company, title, location and url and no other.                   *)
(***************************************************************************)
C5_RealPostingsReturnedAlone ==
    \A t \in Invocations :
        (th[t].entry = "enhanced" /\ th[t].pc = "done")
            => LET jobs == th[t].result[1]
               IN  /\ \A i \in 1..Len(jobs) : DOMAIN jobs[i] = PostingFields
                   /\ th[t].found_count > 0 =>
                        /\ Len(jobs) = th[t].found_count
                        /\ Len(jobs) <= args.max_results
                        /\ \A i \in 1..Len(jobs) : jobs[i].url \in RealUrls
                        /\ UrlsOf(jobs) = Dedup(callbacks)

C5_Witness ==
    \E t \in Invocations :
        /\ th[t].entry = "enhanced"
        /\ th[t].pc = "done"
        /\ args.max_results = 5
        /\ th[t].found_count = 3
        /\ Len(th[t].result[1]) = 3

(***************************************************************************)
(* C8. Once a search entry point has returned, normally or after an        *)
(* internal failure, the browser session it opened has been quit and the   *)
(* scraper holds no driver (self.driver is None).                          *)
(***************************************************************************)
C8_BrowserTornDownOnReturn ==
    \A t \in Invocations :
        th[t].pc = "done" =>
            /\ driver = None
            /\ \A s \in 1..Len(sessions) :
                 sessions[s].owner = t => ~sessions[s].open

(***************************************************************************)
(* The conversation store and the bot handlers (src/src/bot/handlers.py,   *)
(* src/src/bot/main.py).                                                   *)
(*                                                                         *)
(* _user_data is the set of the entries of ConversationData._user_data: an *)
(* entry has a user id and that user's dict, itself a set of <<key,        *)
(* value>> pairs.  A handler is one action: the Telegram calls it awaits   *)
(* may raise, and a search it runs may find postings or not; handled holds *)
(* the handler that returned last, the user it ran for and how it ended.   *)
(***************************************************************************)
\* the number of users talking to the bot
MaxUsers == 2

Users == 1..MaxUsers

\* key in d, and d[key] = value, for a dict d
DictHas(d, key) == \E p \in d : p[1] = key
DictPut(d, key, value) == {p \in d : p[1] # key} \cup {<<key, value>>}

\* user_id in self._user_data
HasUser(store, user_id) == \E e \in store : e.user_id = user_id

\* faulty variant: a fresh entry is added at every call
get_user_data_AlwaysNew(store, user_id) ==
    store \cup {[user_id |-> user_id, data |-> {}]}

\* get_user_data (lines 33-37): the store after the call, which creates
\* the user's entry when there is none
get_user_data(store, user_id) ==
    IF HasUser(store, user_id) THEN store
    ELSE store \cup {[user_id |-> user_id, data |-> {}]}

\* the dict get_user_data returns
UserDict(store, user_id) ==
    (CHOOSE e \in get_user_data(store, user_id) : e.user_id = user_id).data

\* set_user_data (lines 39-42): the store after the call
set_user_data(store, user_id, key, value) ==
    { IF e.user_id = user_id THEN [e EXCEPT !.data = DictPut(@, key, value)] ELSE e :
        e \in get_user_data(store, user_id) }

\* get_user_value (lines 44-47) with the default None: the set holding the
\* value stored under key, empty when the default is returned
get_user_value(store, user_id, key) ==
    {p[2] : p \in {q \in UserDict(store, user_id) : q[1] = key}}

\* faulty variant: the whole store is emptied
clear_user_data_Everyone(store, user_id) == {}

\* faulty variant: nothing is deleted
clear_user_data_Nothing(store, user_id) == store

\* clear_user_data (lines 49-52): the store after the call
clear_user_data(store, user_id) == {e \in store : e.user_id # user_id}

\* the texts users send as a role
RoleTexts == { <<" ">>, <<"Q", "A">>, <<" ", "Q", "A", " ">> }

\* callback_data of the buttons pressed
CallbackData == {"job", "internship", "other"}

\* the handler has returned
Handled(handler, user_id, outcome) ==
    <<[handler |-> handler, user_id |-> user_id, outcome |-> outcome]>>

\* ConversationHandler.END
END == "END"

\* what a handler call gives the ConversationHandler: the state it returns,
\* or "raised" when the reply awaited in its except clause raises as well
\* (lines 95, 142, 186, 409).  A branch whose own reply (lines 124, 152,
\* 161, 391) raises passes to the except clause, which returns END.
\* handle_timeout and handle_fallback only log in their except clause
HandlerResults_RoleToSearching(handler, outcome) ==
    CASE handler = "start_command" ->
           IF outcome = "ok" THEN {"SELECTING_JOB_TYPE"} ELSE {END, "raised"}
      [] handler = "handle_job_type_selection" ->
           IF outcome = "ok" THEN {"ENTERING_ROLE"} ELSE {END, "raised"}
      [] handler = "handle_role_input" ->
           IF outcome = "empty_role" THEN {"ENTERING_ROLE", END, "raised"}
           ELSE {"SEARCHING"}
      [] handler = "handle_search_request" ->
           IF outcome = "searching" THEN {"SEARCHING"} ELSE {END, "raised"}
      [] OTHER -> {END}

HandlerResults(handler, outcome) ==
    CASE handler = "start_command" ->
           IF outcome = "ok" THEN {"SELECTING_JOB_TYPE"} ELSE {END, "raised"}
      [] handler = "handle_job_type_selection" ->
           IF outcome = "ok" THEN {"ENTERING_ROLE"} ELSE {END, "raised"}
      [] handler = "handle_role_input" ->
           IF outcome = "empty_role" THEN {"ENTERING_ROLE", END, "raised"}
           ELSE IF outcome \in {"results", "no_results"} THEN {END}
           ELSE {END, "raised"}
      [] handler = "handle_search_request" ->
           IF outcome = "searching" THEN {"SEARCHING"} ELSE {END, "raised"}
      [] handler \in {"handle_timeout", "handle_fallback"} -> {END}
      [] OTHER -> {"raised"}

\* the table of conversations a ConversationHandler keeps per user
\* (per_user=True, per_chat=False, lines 497-498) after a handler call: a
\* returned state is stored, a raising handler leaves the state as it was.
\* result is what the user's last handler call gave, since_start lists what
\* the user has stored since their last /start.
\* Without a ConversationHandler (an empty table) nothing is recorded
Recorded(table, h, result, store) ==
    IF table = <<>> THEN table
    ELSE LET c == table[h.user_id]
             events ==
               IF h.handler = "start_command" THEN <<>>
               ELSE IF /\ h.handler = "handle_job_type_selection"
                       /\ get_user_value(store, h.user_id, "job_type") # {}
                       /\ "job_type" \notin Range(c.since_start)
               THEN Append(c.since_start, "job_type")
               ELSE IF /\ h.handler = "handle_role_input"
                       /\ h.outcome \in {"error", "results", "no_results",
                                         "search_error"}
                       /\ "role" \notin Range(c.since_start)
               THEN Append(c.since_start, "role")
               ELSE c.since_start
         IN  [table EXCEPT ![h.user_id] =
                [ state |-> IF result = "raised" THEN c.state ELSE result,
                  result |-> result, since_start |-> events ]]

\* the handler's call ends: its result reaches the ConversationHandler
HandlerEnds ==
    \E result \in HandlerResults(handled'[1].handler, handled'[1].outcome) :
        th' = Recorded(th, handled'[1], result, _user_data')

\* start_command (lines 63-96): the data are cleared before anything is sent
start_command(user_id) ==
    /\ _user_data' = clear_user_data(_user_data, user_id)
    /\ \E reply_ok \in BOOLEAN :
         handled' = Handled("start_command", user_id,
                            IF reply_ok THEN "ok" ELSE "error")
    /\ HandlerEnds
    /\ UNCHANGED <<pureVars, site, driver, sessions, calls, callbacks>>

\* handle_job_type_selection (lines 113-143)
handle_job_type_selection(user_id) ==
    /\ \E data \in CallbackData, answer_ok \in BOOLEAN, edit_ok \in BOOLEAN :
         IF ~answer_ok
         THEN /\ UNCHANGED _user_data
              /\ handled' = Handled("handle_job_type_selection", user_id, "error")
         ELSE IF data \notin {"job", "internship"}
         THEN /\ UNCHANGED _user_data
              /\ handled' = Handled("handle_job_type_selection", user_id, "invalid_state")
         ELSE /\ _user_data' = set_user_data(_user_data, user_id, "job_type", data)
              /\ handled' = Handled("handle_job_type_selection", user_id,
                                    IF edit_ok THEN "ok" ELSE "error")
    /\ HandlerEnds
    /\ UNCHANGED <<pureVars, site, driver, sessions, calls, callbacks>>

\* the time filters perform_search goes through (lines 220-224)
time_filters == <<"last 24 hours", "last 2 days", "last 7 days">>

\* perform_search (lines 196-379): found is the time filter whose search
\* returns postings, 0 when none does; the finally clause clears the data
\* however the search ends
perform_search(store, user_id, found, reply_ok) ==
    [ store |-> clear_user_data(store, user_id),
      outcome |-> IF ~reply_ok THEN "search_error"
                  ELSE IF found > 0 THEN "results" ELSE "no_results" ]

\* handle_role_input (lines 145-187)
handle_role_input(user_id) ==
    /\ \E text \in RoleTexts, progress_ok \in BOOLEAN,
          found \in 0..Len(time_filters), reply_ok \in BOOLEAN :
         LET role == Strip(text)
             store1 == get_user_data(_user_data, user_id)
             job_type == get_user_value(_user_data, user_id, "job_type")
             store2 == set_user_data(store1, user_id, "role", role)
             search == perform_search(store2, user_id, found, reply_ok)
         IN  IF role = <<>>
             THEN /\ UNCHANGED _user_data
                  /\ handled' = Handled("handle_role_input", user_id, "empty_role")
             ELSE IF job_type = {}
             THEN /\ _user_data' = store1
                  /\ handled' = Handled("handle_role_input", user_id, "invalid_state")
             ELSE IF ~progress_ok
             THEN /\ _user_data' = store2
                  /\ handled' = Handled("handle_role_input", user_id, "error")
             ELSE /\ _user_data' = search.store
                  /\ handled' = Handled("handle_role_input", user_id, search.outcome)
    /\ HandlerEnds
    /\ UNCHANGED <<pureVars, site, driver, sessions, calls, callbacks>>

\* handle_search_request (lines 381-410): reading the values creates the
\* user's entry when there is none
handle_search_request(user_id) ==
    /\ _user_data' = get_user_data(_user_data, user_id)
    /\ handled' = Handled("handle_search_request", user_id,
                          IF \/ get_user_value(_user_data, user_id, "job_type") = {}
                             \/ get_user_value(_user_data, user_id, "role") = {}
                          THEN "invalid_state" ELSE "searching")
    /\ HandlerEnds
    /\ UNCHANGED <<pureVars, site, driver, sessions, calls, callbacks>>

\* handle_timeout (lines 412-429): the message is sent first (lines
\* 415-419); when that raises, the except clause returns at once
handle_timeout(user_id) ==
    /\ \E reply_ok \in BOOLEAN :
         IF reply_ok
         THEN /\ _user_data' = clear_user_data(_user_data, user_id)
              /\ handled' = Handled("handle_timeout", user_id, "ok")
         ELSE /\ UNCHANGED _user_data
              /\ handled' = Handled("handle_timeout", user_id, "error")
    /\ HandlerEnds
    /\ UNCHANGED <<pureVars, site, driver, sessions, calls, callbacks>>

\* handle_fallback (lines 431-447): as handle_timeout
handle_fallback(user_id) ==
    /\ \E reply_ok \in BOOLEAN :
         IF reply_ok
         THEN /\ _user_data' = clear_user_data(_user_data, user_id)
              /\ handled' = Handled("handle_fallback", user_id, "ok")
         ELSE /\ UNCHANGED _user_data
              /\ handled' = Handled("handle_fallback", user_id, "error")
    /\ HandlerEnds
    /\ UNCHANGED <<pureVars, site, driver, sessions, calls, callbacks>>

\* LinkedInJobBot.search_jobs_and_internships (main.py, lines 103-207).
\* urls_found: _perform_search returns postings; MessageFormatter has no
\* create_job_opportunity, so line 140 raises whenever it does.  The except
\* clause sends the error message before it clears the data (lines
\* 203-207).
search_jobs_and_internships(user_id) ==
    /\ \E urls_found \in BOOLEAN, reply_ok \in BOOLEAN, error_reply_ok \in BOOLEAN :
         LET store1 == get_user_data(_user_data, user_id)
             invalid == \/ get_user_value(_user_data, user_id, "job_type") = {}
                        \/ get_user_value(_user_data, user_id, "role") = {}
             raised == ~reply_ok \/ (~invalid /\ urls_found)
         IN  IF ~raised
             THEN IF invalid
                  THEN /\ _user_data' = store1
                       /\ handled' = Handled("search_jobs_and_internships", user_id,
                                             "invalid_state")
                  ELSE /\ _user_data' = clear_user_data(store1, user_id)
                       /\ handled' = Handled("search_jobs_and_internships", user_id,
                                             "no_results")
             ELSE IF error_reply_ok
                  THEN /\ _user_data' = clear_user_data(store1, user_id)
                       /\ handled' = Handled("search_jobs_and_internships", user_id,
                                             "error")
                  ELSE /\ _user_data' = store1
                       /\ handled' = Handled("search_jobs_and_internships", user_id,
                                             "error_unreported")
    /\ HandlerEnds
    /\ UNCHANGED <<pureVars, site, driver, sessions, calls, callbacks>>

InitConv ==
    /\ args = <<>>
    /\ ret = NoRet
    /\ IdleSearch
    /\ IdleBot

NextConv ==
    \/ \E user_id \in Users : start_command(user_id)
    \/ \E user_id \in Users : handle_job_type_selection(user_id)
    \/ \E user_id \in Users : handle_role_input(user_id)
    \/ \E user_id \in Users : handle_search_request(user_id)
    \/ \E user_id \in Users : handle_timeout(user_id)
    \/ \E user_id \in Users : handle_fallback(user_id)
    \/ \E user_id \in Users : search_jobs_and_internships(user_id)

SpecConv == InitConv /\ [][NextConv]_vars

\* the keys stored for a user
StoredKeys(user_id) ==
    {p[1] : p \in UNION {e.data : e \in {f \in _user_data : f.user_id = user_id}}}

\* the handler that returned last ended a search of its user
SearchFinished ==
    /\ handled # <<>>
    /\ \/ /\ handled[1].handler = "handle_role_input"
          /\ handled[1].outcome \in {"results", "no_results", "search_error"}
       \/ /\ handled[1].handler = "search_jobs_and_internships"
          /\ handled[1].outcome \in {"no_results", "error", "error_unreported"}

(***************************************************************************)
(* C11. After a handler in which a user's search finishes (with results,   *)
(* with no results, or with an error) has returned, and after handle_      *)
(* timeout or handle_fallback has returned for a user, the store has no    *)
(* job_type and no role for that user.                                     *)
(***************************************************************************)
C11_DataClearedWhenSearchOrConversationEnds ==
    (handled # <<>> /\ (\/ SearchFinished
                        \/ handled[1].handler \in {"handle_timeout", "handle_fallback"}))
        => StoredKeys(handled[1].user_id) \cap {"job_type", "role"} = {}

\* the state records kept for a user
RecordsOf(store, user_id) == {e \in store : e.user_id = user_id}

(***************************************************************************)
(* C12. The store holds at most one state record per user id, and a        *)
(* handler that runs for one user (/start, job-type selection, role input  *)
(* with its search clean-up, timeout, fallback) leaves the record of every *)
(* other user as it was.                                                   *)
(***************************************************************************)
C12_OneRecordPerUserOthersUntouched ==
    [][ /\ \A user_id \in Users : Cardinality(RecordsOf(_user_data', user_id)) <= 1
        /\ \A other \in Users :
             (handled' # <<>> /\ handled'[1].user_id # other)
                 => RecordsOf(_user_data', other) = RecordsOf(_user_data, other) ]_vars

\* a search has cleaned up after user 1 while user 2 is in mid-conversation
C12_Witness ==
    /\ handled # <<>>
    /\ handled[1].user_id = 1
    /\ handled[1].handler = "handle_role_input"
    /\ handled[1].outcome = "results"
    /\ RecordsOf(_user_data, 1) = {}
    /\ RecordsOf(_user_data, 2) = {[user_id |-> 2, data |-> {<<"job_type", "internship">>}]}

(***************************************************************************)
(* MessageFormatter.extractJobDetails (messages.py)                        *)
(***************************************************************************)
\* Python values of the details dict: a str, or None
PyStr(s) == [type |-> "str", val |-> s]
PyNone == [type |-> "NoneType", val |-> <<>>]

\* the outcome of a call: the value returned, or an exception that escapes
Returns(v) == [raised |-> FALSE, value |-> v]
Raises == [raised |-> TRUE, value |-> {}]

\* int(s) for the texts a URL can end in: blanks stripped, an optional sign,
\* then decimal digits only; anything else is a ValueError
PyIntBody(s) ==
    LET t == Strip(s)
    IN  IF t # <<>> /\ t[1] \in {"-", "+"} THEN Tail(t) ELSE t
PyIntOk(s) == PyIntBody(s) # <<>> /\ \A i \in 1..Len(PyIntBody(s)) : IsDigit(PyIntBody(s)[i])
PyInt(s) ==
    IF Strip(s)[1] = "-" THEN 0 - IntOf(PyIntBody(s)) ELSE IntOf(PyIntBody(s))

S_Bangalore == <<"B", "a", "n", "g", "a", "l", "o", "r", "e">>
S_Chennai == <<"C", "h", "e", "n", "n", "a", "i">>
S_Delhi == <<"D", "e", "l", "h", "i">>
S_Hyderabad == <<"H", "y", "d", "e", "r", "a", "b", "a", "d">>
S_Mumbai == <<"M", "u", "m", "b", "a", "i">>
S_Mysore == <<"M", "y", "s", "o", "r", "e">>
S_Noida == <<"N", "o", "i", "d", "a">>
S_Pune == <<"P", "u", "n", "e">>
S_TechCompany == <<"T", "e", "c", "h", " ", "C", "o", "m", "p", "a", "n", "y">>
S_India == <<"I", "n", "d", "i", "a">>
S_india == <<"i", "n", "d", "i", "a">>
S_Remote == <<"R", "e", "m", "o", "t", "e">>
S_remote == <<"r", "e", "m", "o", "t", "e">>
S_comma_India == <<",", " ", "I", "n", "d", "i", "a">>
S_view_39 == <<"l", "i", "n", "k", "e", "d", "i", "n", ".", "c", "o", "m", "/", "j", "o", "b", "s", "/", "v", "i", "e", "w", "/", "3", "9">>
S_view_40 == <<"l", "i", "n", "k", "e", "d", "i", "n", ".", "c", "o", "m", "/", "j", "o", "b", "s", "/", "v", "i", "e", "w", "/", "4", "0">>

\* companies (lines 331-346)
companies == <<
    [name |-> <<"T", "C", "S">>,
     locations |-> <<S_Mumbai, S_Bangalore, S_Chennai, S_Pune>>],
    [name |-> <<"I", "n", "f", "o", "s", "y", "s">>,
     locations |-> <<S_Bangalore, S_Mysore, S_Chennai, S_Hyderabad>>],
    [name |-> <<"M", "i", "c", "r", "o", "s", "o", "f", "t">>,
     locations |-> <<S_Bangalore, S_Hyderabad, S_Noida>>],
    [name |-> <<"A", "m", "a", "z", "o", "n">>,
     locations |-> <<S_Bangalore, S_Chennai, S_Hyderabad>>],
    [name |-> <<"G", "o", "o", "g", "l", "e">>,
     locations |-> <<S_Bangalore, S_Hyderabad, S_Mumbai>>],
    [name |-> <<"A", "c", "c", "e", "n", "t", "u", "r", "e">>,
     locations |-> <<S_Bangalore, S_Mumbai, S_Chennai, S_Hyderabad>>],
    [name |-> <<"W", "i", "p", "r", "o">>,
     locations |-> <<S_Bangalore, S_Chennai, S_Hyderabad, S_Mumbai>>],
    [name |-> <<"O", "r", "a", "c", "l", "e">>,
     locations |-> <<S_Bangalore, S_Hyderabad, S_Mumbai>>],
    [name |-> <<"I", "B", "M">>,
     locations |-> <<S_Bangalore, S_Mumbai, S_Delhi, S_Pune>>],
    [name |-> <<"F", "l", "i", "p", "k", "a", "r", "t">>,
     locations |-> <<S_Bangalore, S_Delhi>>],
    [name |-> <<"Z", "o", "m", "a", "t", "o">>,
     locations |-> <<S_Delhi, S_Bangalore>>],
    [name |-> <<"S", "w", "i", "g", "g", "y">>,
     locations |-> <<S_Bangalore, S_Hyderabad>>],
    [name |-> <<"P", "h", "o", "n", "e", "P", "e">>,
     locations |-> <<S_Bangalore, S_Pune>>],
    [name |-> <<"R", "a", "z", "o", "r", "p", "a", "y">>,
     locations |-> <<S_Bangalore, S_Delhi>>]
>>

\* s[-n:]
LastChars(s, n) == IF Len(s) <= n THEN s ELSE SubSeq(s, Len(s) - n + 1, Len(s))

\* _extract_current_opportunity_details (lines 323-360); no statement of it
\* is inside a try block
_extract_current_opportunity_details(job_url) ==
    LET parts == Split(job_url, "/")
        job_id == IF Contains(job_url, <<"/">>) THEN parts[Len(parts)] ELSE <<>>
        indexed == job_id # <<>> /\ Len(job_id) >= 2
    IN  IF indexed /\ ~PyIntOk(LastChars(job_id, 2)) THEN Raises
        ELSE LET company_index == IF indexed
                                  THEN PyInt(LastChars(job_id, 2)) % Len(companies)
                                  ELSE 0
                 selected_company == companies[company_index + 1]
             IN  IF job_id # <<>> /\ ~PyIntOk(LastChars(job_id, 1)) THEN Raises
                 ELSE LET location_index ==
                              IF job_id # <<>>
                              THEN PyInt(LastChars(job_id, 1)) % Len(selected_company.locations)
                              ELSE 0
                          selected_location == selected_company.locations[location_index + 1]
                      IN  Returns({ <<"company", PyStr(selected_company.name)>>,
                                    <<"location", PyStr(selected_location \o S_comma_India)>>,
                                    <<"title", PyNone>> })

\* _extract_job_title_from_url (lines 376-383)
_extract_job_title_from_url(job_url) == PyNone

\* _extract_location_from_url (lines 386-397)
_extract_location_from_url(job_url) ==
    IF Contains(Lower(job_url), S_india) THEN PyStr(S_India)
    ELSE IF Contains(Lower(job_url), S_remote) THEN PyStr(S_Remote)
    ELSE PyStr(S_Location_TBD)

\* dict.update
DictUpdate(d, e) == {p \in d : ~DictHas(e, p[1])} \cup e
DictValue(d, key) == (CHOOSE p \in d : p[1] = key)[2]

\* the "Normalize" step (lines 304-310): s.strip() of a non-empty str
Normalized(v) == IF v.type = "str" /\ v.val # <<>> THEN PyStr(Strip(v.val)) ELSE v

\* what the environment gives a call: aiohttp missing, the request raising,
\* a status outside 200..399, or a page; and for a page the group matched
\* by each of the six regular expressions (<<>>: no match)
NetOutcomes == {"no_aiohttp", "raises", "bad_status", "page"}
HtmlGroups == { <<>>, <<" ", "A", " ">> }
Pages == [companyName : HtmlGroups, formattedLocation : HtmlGroups,
          addressLocality : HtmlGroups, addressRegion : HtmlGroups,
          jobTitle : HtmlGroups, og_title : HtmlGroups]

\* extractJobDetails (lines 240-320)
extractJobDetails(job_url, net, html) ==
    LET details == { <<"company", PyStr(S_TechCompany)>>, <<"title", PyNone>>,
                     <<"location", PyStr(S_India)>> }
        heuristics == DictPut(DictPut(details, "title", _extract_job_title_from_url(job_url)),
                              "location", _extract_location_from_url(job_url))
    IN  IF Contains(job_url, S_view_39) \/ Contains(job_url, S_view_40)
        THEN LET current == _extract_current_opportunity_details(job_url)
             IN  IF current.raised THEN Raises
                 ELSE Returns(DictUpdate(details, current.value))
        ELSE IF net # "page" THEN Returns(heuristics)
        ELSE LET company == IF html.companyName # <<>> THEN PyStr(html.companyName)
                            ELSE DictValue(details, "company")
                 location == IF html.formattedLocation # <<>>
                             THEN PyStr(html.formattedLocation)
                             ELSE IF html.addressLocality # <<>> /\ html.addressRegion # <<>>
                             THEN PyStr(html.addressLocality \o <<",", " ">>
                                            \o html.addressRegion)
                             ELSE DictValue(details, "location")
                 title == IF html.jobTitle # <<>> THEN PyStr(html.jobTitle)
                          ELSE IF html.og_title # <<>> THEN PyStr(html.og_title)
                          ELSE DictValue(details, "title")
             IN  Returns({ <<"company", Normalized(company)>>,
                           <<"title", Normalized(title)>>,
                           <<"location", Normalized(location)>> })

\* the URLs given: a job-view URL (or another address), the first digits of
\* the id, and what follows them
MaxTailLen == 2
UrlHeads == { S_view_url, <<"h", "t", "t", "p", "s", ":", "/", "/", "r", "e", "m", "o", "t", "e", ".", "i", "o", "/">> }
IdStarts == { <<"3", "9">>, <<"4", "0">>, <<"1", "2">> }
TailChars == {"7", "-", "/", "x"}
UrlTails == UNION { [1..n -> TailChars] : n \in 0..MaxTailLen }
JobUrls == { h \o i \o t : h \in UrlHeads, i \in IdStarts, t \in UrlTails }

InitDetails ==
    /\ args \in [job_url : JobUrls]
    /\ ret = NoRet
    /\ IdleSearch
    /\ IdleBot

ExtractJobDetails ==
    /\ ret = NoRet
    /\ \E net \in NetOutcomes, html \in Pages :
         ret' = <<extractJobDetails(args.job_url, net, html)>>
    /\ UNCHANGED <<args, searchVars, botVars>>

NextDetails == ExtractJobDetails

SpecDetails == InitDetails /\ [][NextDetails]_vars

(***************************************************************************)
(* C13. For every job URL, extractJobDetails completes without raising and *)
(* returns a dict with the keys company, title and location whose company  *)
(* is a string; so it does for a URL that contains                         *)
(* linkedin.com/jobs/view/39 or linkedin.com/jobs/view/40, whatever        *)
(* follows the id.                                                         *)
(***************************************************************************)
C13_ExtractJobDetailsNeverRaises ==
    ret # NoRet =>
        /\ ~ret[1].raised
        /\ \A key \in {"company", "title", "location"} : DictHas(ret[1].value, key)
        /\ DictValue(ret[1].value, "company").type = "str"

(***************************************************************************)
(* LocationType and MessageFormatterLegacy.determine_location_type         *)
(***************************************************************************)
\* class LocationType(Enum): the names in definition order with the value
\* each is given
LocationTypeNames == <<"INDIA", "REMOTE", "GLOBAL">>
LocationTypeValues == [INDIA |-> "", REMOTE |-> "", GLOBAL |-> ""]

\* LocationType.<name>: Enum makes a name whose value an earlier name
\* already has an alias of that earlier member
LocationType(name) ==
    LET first == CHOOSE i \in 1..Len(LocationTypeNames) :
                     /\ LocationTypeValues[LocationTypeNames[i]] = LocationTypeValues[name]
                     /\ \A j \in 1..(i - 1) :
                          LocationTypeValues[LocationTypeNames[j]] # LocationTypeValues[name]
    IN  [name |-> LocationTypeNames[first], value |-> LocationTypeValues[name]]

india_terms == <<
    <<"i", "n", "d", "i", "a">>,
    <<"b", "a", "n", "g", "a", "l", "o", "r", "e">>,
    <<"m", "u", "m", "b", "a", "i">>,
    <<"d", "e", "l", "h", "i">>,
    <<"h", "y", "d", "e", "r", "a", "b", "a", "d">>,
    <<"p", "u", "n", "e">>,
    <<"c", "h", "e", "n", "n", "a", "i">>,
    <<"k", "o", "l", "k", "a", "t", "a">>,
    <<"a", "h", "m", "e", "d", "a", "b", "a", "d">>,
    <<"g", "u", "r", "g", "a", "o", "n">>,
    <<"n", "o", "i", "d", "a">>,
    <<"b", "e", "n", "g", "a", "l", "u", "r", "u">>,
    <<"k", "a", "r", "n", "a", "t", "a", "k", "a">>,
    <<"m", "a", "h", "a", "r", "a", "s", "h", "t", "r", "a">>,
    <<"t", "a", "m", "i", "l", " ", "n", "a", "d", "u">>,
    <<"a", "n", "d", "h", "r", "a", " ", "p", "r", "a", "d", "e", "s", "h">>
>>
S_f_WT_2 == <<"f", "_", "W", "T", "=", "2">>

\* determine_location_type (lines 449-461)
determine_location_type(job_info) ==
    LET info_lower == Lower(job_info)
    IN  IF \E i \in 1..Len(india_terms) : Contains(info_lower, india_terms[i])
        THEN LocationType("INDIA")
        ELSE IF Contains(info_lower, S_remote) \/ Contains(job_info, S_f_WT_2)
        THEN LocationType("REMOTE")
        ELSE LocationType("GLOBAL")

\* the job-info strings given: a job URL followed by some of these parts
S_job_123 == <<"h", "t", "t", "p", "s", ":", "/", "/", "l", "i", "n", "k", "e", "d", "i", "n", ".", "c", "o", "m", "/", "j", "o", "b", "s", "/", "v", "i", "e", "w", "/", "1", "2", "3", "?">>
InfoParts == {
    <<"l", "o", "c", "a", "t", "i", "o", "n", "=", "b", "a", "n", "g", "a", "l", "o", "r", "e">>,
    <<"f", "_", "W", "T", "=", "2">>,
    <<"l", "o", "c", "a", "t", "i", "o", "n", "=", "n", "e", "w", "y", "o", "r", "k">>,
    <<"R", "e", "m", "o", "t", "e">>,
    <<"f", "_", "w", "t", "=", "2">>,
    <<"l", "o", "c", "a", "t", "i", "o", "n", "=", "T", "a", "m", "i", "l", " ", "N", "a", "d", "u">>,
    <<"&">>
}
MaxInfoParts == 1
RECURSIVE Concat(_)
Concat(ss) == IF ss = <<>> THEN <<>> ELSE Head(ss) \o Concat(Tail(ss))
JobInfos == { S_job_123 \o Concat(ps) : ps \in UNION { [1..n -> InfoParts] : n \in 0..MaxInfoParts } }

LocationTypeOf == [job_info \in JobInfos |-> determine_location_type(job_info)]

InitLoc ==
    /\ args \in [job_info : JobInfos, other_info : JobInfos]
    /\ ret = NoRet
    /\ IdleSearch
    /\ IdleBot

\* the function applied to two strings, as the test applies it to three
DetermineLocationType ==
    /\ ret = NoRet
    /\ ret' = <<[first |-> LocationTypeOf[args.job_info],
                 second |-> LocationTypeOf[args.other_info]]>>
    /\ UNCHANGED <<args, searchVars, botVars>>

NextLoc == DetermineLocationType

SpecLoc == InitLoc /\ [][NextLoc]_vars

\* the category the text belongs to: India term, else remote marker, else
\* neither
InfoCategory(job_info) ==
    IF \E i \in 1..Len(india_terms) : Contains(Lower(job_info), india_terms[i]) THEN "India"
    ELSE IF Contains(Lower(job_info), S_remote) \/ Contains(job_info, S_f_WT_2) THEN "Remote"
    ELSE "Global"
InfoCategoryOf == [job_info \in JobInfos |-> InfoCategory(job_info)]

(***************************************************************************)
(* C14. determine_location_type puts every job-info string into one of     *)
(* three distinct categories: two strings of different categories (India   *)
(* term; no India term but "remote" or "f_WT=2"; neither) are given        *)
(* different category values, two strings of one category the same value.  *)
(***************************************************************************)
C14_ThreeDistinctLocationCategories ==
    ret # NoRet =>
        ((ret[1].first = ret[1].second)
            <=> (InfoCategoryOf[args.job_info] = InfoCategoryOf[args.other_info]))

(***************************************************************************)
(* linkedin_fixed.py: LinkedInScraper._streaming_search                    *)
(***************************************************************************)
MaxFixedResults == 2
MaxFixedPageLen == MaxFixedResults
MaxFixedCallbacks == 3

\* the href attributes of the job links of a page: empty (no href), an
\* address, or an address with a query string
FixedHrefs == { <<>>, <<"a">>, <<"a", "?", "t">>, <<"b">> }
FixedElements == UNION { [1..n -> FixedHrefs] : n \in 0..MaxFixedPageLen }

\* what one location shows: the job links found at first and, when a
\* "Show more jobs" button is there and enabled, the links found after the
\* click
FixedPages ==
    { <<e>> : e \in FixedElements }
        \cup { <<e, f>> : e \in FixedElements, f \in {g \in FixedElements : Len(g) <= 1} }

\* india_locations, remote_locations and the global search (lines 348-357,
\* 394, 429)
fixed_locations ==
    <<"India", "Bangalore, India", "Mumbai, India", "Delhi, India", "Hyderabad, India",
      "Pune, India", "Chennai, India", "Kolkata, India", "Remote", "Work from Home", "">>

\* the loop over job_elements of _extract_job_urls_streaming (lines
\* 141-170); an element whose get_attribute raises is passed over like one
\* without href
RECURSIVE FixedElementLoop(_, _, _)
FixedElementLoop(job_elements, acc, max_results) ==
    IF job_elements = <<>> \/ acc.found_count >= max_results THEN acc
    ELSE LET href == Head(job_elements)
         IN  IF href # <<>> /\ href \notin acc.all_found_urls
             THEN LET job_url == IF Contains(href, <<"?">>) THEN Split(href, "?")[1] ELSE href
                  IN  FixedElementLoop(Tail(job_elements),
                          [job_urls |-> Append(acc.job_urls, job_url),
                           all_found_urls |-> acc.all_found_urls \cup {job_url},
                           found_count |-> acc.found_count + 1],
                          max_results)
             ELSE FixedElementLoop(Tail(job_elements), acc, max_results)

\* _extract_job_urls_streaming (lines 108-206): the URLs it returns, which
\* are the URLs it passes to job_callback, and the set it has added them to
RECURSIVE FixedExtract(_, _, _)
FixedExtract(page, all_found_urls, max_results) ==
    LET r == FixedElementLoop(Head(page),
                 [job_urls |-> <<>>, all_found_urls |-> all_found_urls, found_count |-> 0],
                 max_results)
    IN  IF r.found_count < max_results /\ Len(page) > 1
        THEN LET more == FixedExtract(Tail(page), r.all_found_urls,
                                      max_results - r.found_count)
             IN  [job_urls |-> r.job_urls \o more.job_urls,
                  all_found_urls |-> more.all_found_urls]
        ELSE [job_urls |-> r.job_urls, all_found_urls |-> r.all_found_urls]

FixedExtractOf ==
    [page \in FixedPages, found \in SUBSET { <<"a">>, <<"b">> }, n \in 1..MaxFixedResults
        |-> FixedExtract(page, found, n)]

\* "Track new unique jobs" (lines 380-384, 413-417, 438-442)
RECURSIVE FixedTrack(_, _)
FixedTrack(location_urls, l) ==
    IF location_urls = <<>> THEN l
    ELSE LET job_url == Head(location_urls)
         IN  IF job_url \notin l.all_found_urls
             THEN FixedTrack(Tail(location_urls),
                             [l EXCEPT !.all_job_urls = Append(@, job_url),
                                       !.all_found_urls = @ \cup {job_url},
                                       !.found_count = @ + 1])
             ELSE FixedTrack(Tail(location_urls), l)

\* _streaming_search is entered (lines 339-341)
FixedStart ==
    /\ th # <<>>
    /\ th[1].pc = "call"
    /\ th' = <<[th[1] EXCEPT !.pc = "locations"]>>
    /\ UNCHANGED <<pureVars, botVars, site, driver, sessions, calls, callbacks>>

\* one location is searched (lines 359-384, 396-417, 422-442):
\* _search_jobs_by_criteria_streaming gets the driver, loads the page and
\* extracts (lines 260-272), each new URL going to job_callback at once
FixedSearchLocation ==
    /\ th # <<>>
    /\ LET l == th[1]
       IN  /\ l.pc = "locations"
           /\ l.location <= Len(fixed_locations)
           /\ l.found_count < l.max_results
           /\ \E page \in FixedPages :
                LET remaining_results == l.max_results - l.found_count
                    x == FixedExtractOf[page, l.all_found_urls, remaining_results]
                    l1 == [l EXCEPT !.all_found_urls = x.all_found_urls]
                    sent == IF l.job_callback THEN x.job_urls ELSE <<>>
                IN  /\ Len(callbacks) + Len(sent) <= MaxFixedCallbacks
                    /\ callbacks' = callbacks \o sent
                    /\ th' = <<[FixedTrack(x.job_urls, l1) EXCEPT !.location = @ + 1]>>
           /\ IF driver = None
              THEN /\ sessions' = Append(sessions, NewSession(1))
                   /\ driver' = Len(sessions) + 1
              ELSE UNCHANGED <<sessions, driver>>
    /\ UNCHANGED <<pureVars, botVars, site, calls>>

\* the location's search fails: _setup_driver or driver.get raises (lines
\* 276-277), or the result list does not appear (lines 201-204); no URL
\* is found
FixedLocationFails ==
    /\ th # <<>>
    /\ LET l == th[1]
       IN  /\ l.pc = "locations"
           /\ l.location <= Len(fixed_locations)
           /\ l.found_count < l.max_results
           /\ th' = <<[l EXCEPT !.location = @ + 1]>>
           /\ \E setup_ok \in BOOLEAN :
                IF driver = None /\ setup_ok
                THEN /\ sessions' = Append(sessions, NewSession(1))
                     /\ driver' = Len(sessions) + 1
                ELSE UNCHANGED <<sessions, driver>>
    /\ UNCHANGED <<pureVars, botVars, site, calls, callbacks>>

\* enough has been found: the remaining locations are passed over (lines
\* 360-361, 391, 397-398, 422)
FixedSkipLocation ==
    /\ th # <<>>
    /\ LET l == th[1]
       IN  /\ l.pc = "locations"
           /\ l.location <= Len(fixed_locations)
           /\ l.found_count >= l.max_results
           /\ th' = <<[l EXCEPT !.location = @ + 1]>>
    /\ UNCHANGED <<pureVars, botVars, site, driver, sessions, calls, callbacks>>

\* the finally clause closes the driver (lines 448-450, 97-106) and the
\* list is returned (line 452)
FixedReturn ==
    /\ th # <<>>
    /\ LET l == th[1]
       IN  /\ l.pc = "locations"
           /\ l.location > Len(fixed_locations)
           /\ th' = <<[l EXCEPT !.pc = "done"]>>
           /\ ret' = <<l.all_job_urls>>
           /\ \E quit_ok \in BOOLEAN :
                IF driver # None /\ quit_ok
                THEN /\ sessions' = Quit(sessions, driver, 1)
                     /\ driver' = None
                ELSE UNCHANGED <<sessions, driver>>
    /\ UNCHANGED <<args, botVars, site, calls, callbacks>>

InitFixed ==
    /\ args \in [max_results : 0..MaxFixedResults, job_callback : BOOLEAN]
    /\ ret = NoRet
    /\ th = <<[pc |-> "call", location |-> 1, max_results |-> args.max_results,
               job_callback |-> args.job_callback, all_job_urls |-> <<>>,
               all_found_urls |-> {}, found_count |-> 0]>>
    /\ site = {}
    /\ driver = None
    /\ sessions = <<>>
    /\ calls = <<>>
    /\ callbacks = <<>>
    /\ IdleBot

NextFixed ==
    \/ FixedStart
    \/ FixedSearchLocation
    \/ FixedLocationFails
    \/ FixedSkipLocation
    \/ FixedReturn

SpecFixed == InitFixed /\ [][NextFixed]_vars

(***************************************************************************)
(* C15. The streaming search of linkedin_fixed.py returns all the URLs it  *)
(* found: when it has returned, every URL that was passed to job_callback  *)
(* during the search is in the returned list.                              *)
(***************************************************************************)
C15_StreamedUrlsAreReturned ==
    ret # NoRet => \A i \in 1..Len(callbacks) : callbacks[i] \in Range(ret[1])

\* the job elements that expose a posting age and whose every posting-age
\* text _is_fresh_posting classifies as not fresh
StaleElements ==
    { e \in Range(JobElements) :
        /\ e.times # <<>>
        /\ \A i \in 1..Len(e.times) : ~_is_fresh_posting(e.times[i]) }

(***************************************************************************)
(* C16. The enhanced search filters stale postings: a job element all of   *)
(* whose posting-age texts are classified as not fresh fails the freshness *)
(* validation of _search_location_enhanced, so its URL is never streamed   *)
(* to the callback and is in no list a search returns.                     *)
(***************************************************************************)
C16_StalePostingsFilteredOut ==
    \A e \in StaleElements :
        /\ \A i \in 1..Len(callbacks) : callbacks[i] # e.url
        /\ \A t \in Invocations :
             (th[t].entry = "enhanced" /\ th[t].pc = "done")
                 => \A i \in 1..Len(th[t].result[1]) : th[t].result[1][i].url # e.url

(***************************************************************************)
(* The selector loops: LinkedInScraper._extract_job_urls (linkedin.py) and *)
(* LinkedInEnhancedScraper._find_job_elements (linkedin_enhanced.py)       *)
(***************************************************************************)
\* selectors_to_try (linkedin.py, lines 368-379)
selectors_to_try ==
    <<"a[href*='/jobs/view/']", ".job-search-card a",
      ".base-search-card a[href*='/jobs/view/']", ".job-result-card a[href*='/jobs/view/']",
      "[data-entity-urn*='job'] a", ".job-card a[href*='/jobs/view/']",
      ".result-card a[href*='/jobs/view/']", "h3 a[href*='/jobs/view/']",
      ".job-title a", ".job-search-card__link">>

\* selectors (linkedin_enhanced.py, lines 493-498)
selectors ==
    <<".job-search-card", ".job-result-card", ".jobs-search-results__list-item",
      "[data-test-id='job-card']">>

\* "Stop if we found a good number of URLs" (linkedin.py, line 404)
EnoughUrls == 10

\* the elements a selector matches: each links to the posting with the given
\* number, with or without tracking parameters after a "?"; number 0 is an
\* element whose href is no /jobs/view/ address
MaxSelUrls == 11
SelRun(a, b, tracked) == [i \in 1..(b - a + 1) |-> [posting |-> a + i - 1, tracked |-> tracked]]
SelMatches ==
    { <<>>, <<[posting |-> 0, tracked |-> FALSE]>> }
        \cup { SelRun(a, b, tracked) :
                 a \in {1, MaxSelUrls \div 2}, b \in 1..MaxSelUrls, tracked \in BOOLEAN }

\* href.split('?')[0]: the address without its tracking parameters
clean_url(element) == element.posting

\* the loop over job_elements (linkedin.py, lines 386-397)
RECURSIVE AddCleanUrls(_, _)
AddCleanUrls(job_urls, job_elements) ==
    IF job_elements = <<>> THEN job_urls
    ELSE LET element == Head(job_elements)
         IN  IF element.posting # 0 /\ clean_url(element) \notin Range(job_urls)
             THEN AddCleanUrls(Append(job_urls, clean_url(element)), Tail(job_elements))
             ELSE AddCleanUrls(job_urls, Tail(job_elements))

\* the locals of a selector loop; first_selector, first_matches and
\* later_queries record which selector was the first to match an element,
\* what it matched, and how many selectors were queried after it
NewSelLocals(fn) ==
    [fn |-> fn, pc |-> "loop", selector |-> 1, result |-> <<>>,
     first_selector |-> 0, first_matches |-> <<>>, later_queries |-> 0]

Queried(l, matches) ==
    IF l.first_selector # 0 THEN [l EXCEPT !.later_queries = @ + 1]
    ELSE IF matches # <<>>
    THEN [l EXCEPT !.first_selector = l.selector,
                   !.first_matches = [i \in 1..Len(matches) |-> clean_url(matches[i])]]
    ELSE l

\* the end of one turn of the loop of _extract_job_urls (lines 403-405)
ExtractNextSelector(l) ==
    IF Len(l.result) >= EnoughUrls \/ l.selector = Len(selectors_to_try)
    THEN [l EXCEPT !.pc = "return"]
    ELSE [l EXCEPT !.selector = @ + 1]

\* _extract_job_urls queries a selector and takes the URLs of what it
\* matches (linkedin.py, lines 381-405)
ExtractQuerySelector ==
    /\ th # <<>>
    /\ th[1].fn = "_extract_job_urls"
    /\ th[1].pc = "loop"
    /\ \E job_elements \in SelMatches :
         th' = <<ExtractNextSelector(
                    [Queried(th[1], job_elements)
                        EXCEPT !.result = AddCleanUrls(@, job_elements)])>>
    /\ UNCHANGED <<pureVars, botVars, site, driver, sessions, calls, callbacks>>

\* find_elements raises (linkedin.py, lines 399-401): continue
ExtractQueryRaises ==
    /\ th # <<>>
    /\ th[1].fn = "_extract_job_urls"
    /\ th[1].pc = "loop"
    /\ th' = <<IF th[1].selector = Len(selectors_to_try)
               THEN [Queried(th[1], <<>>) EXCEPT !.pc = "return"]
               ELSE [Queried(th[1], <<>>) EXCEPT !.selector = @ + 1]>>
    /\ UNCHANGED <<pureVars, botVars, site, driver, sessions, calls, callbacks>>

\* _find_job_elements queries a selector (linkedin_enhanced.py, lines
\* 500-506)
FindQuerySelector ==
    /\ th # <<>>
    /\ th[1].fn = "_find_job_elements"
    /\ th[1].pc = "loop"
    /\ \E elements \in SelMatches :
         LET l == Queried(th[1], elements)
         IN  th' = <<IF Len(elements) > 0
                     THEN [l EXCEPT !.pc = "return",
                                    !.result = [i \in 1..Len(elements)
                                                   |-> clean_url(elements[i])]]
                     ELSE IF l.selector = Len(selectors)
                     THEN [l EXCEPT !.pc = "return"]
                     ELSE [l EXCEPT !.selector = @ + 1]>>
    /\ UNCHANGED <<pureVars, botVars, site, driver, sessions, calls, callbacks>>

\* find_elements raises (linkedin_enhanced.py, lines 507-508): continue
FindQueryRaises ==
    /\ th # <<>>
    /\ th[1].fn = "_find_job_elements"
    /\ th[1].pc = "loop"
    /\ th' = <<IF th[1].selector = Len(selectors)
               THEN [Queried(th[1], <<>>) EXCEPT !.pc = "return"]
               ELSE [Queried(th[1], <<>>) EXCEPT !.selector = @ + 1]>>
    /\ UNCHANGED <<pureVars, botVars, site, driver, sessions, calls, callbacks>>

\* the loop is left with what it has collected (linkedin.py, line 407;
\* linkedin_enhanced.py, line 510)
SelectorsDone ==
    /\ th # <<>>
    /\ th[1].pc = "return"
    /\ th' = <<[th[1] EXCEPT !.pc = "done"]>>
    /\ ret' = <<th[1].result>>
    /\ UNCHANGED <<args, botVars, site, driver, sessions, calls, callbacks>>

InitSel ==
    /\ args \in [fn : {"_extract_job_urls", "_find_job_elements"}]
    /\ ret = NoRet
    /\ th = <<NewSelLocals(args.fn)>>
    /\ site = {}
    /\ driver = None
    /\ sessions = <<>>
    /\ calls = <<>>
    /\ callbacks = <<>>
    /\ IdleBot

NextSel ==
    \/ ExtractQuerySelector
    \/ ExtractQueryRaises
    \/ FindQuerySelector
    \/ FindQueryRaises
    \/ SelectorsDone

SpecSel == InitSel /\ [][NextSel]_vars

(***************************************************************************)
(* C17. Extraction tries its selectors in list order and stops at the      *)
(* first selector that matches at least one element: no selector is        *)
(* queried after it, and the result is built from its matches only.        *)
(***************************************************************************)
C17_StopsAtFirstMatchingSelector ==
    (th # <<>> /\ th[1].first_selector # 0)
        => /\ th[1].later_queries = 0
           /\ Range(th[1].result) \subseteq Range(th[1].first_matches)

\* no member occurs twice in the list
NoDuplicates(l) == \A i, j \in 1..Len(l) : l[i] = l[j] => i = j

(***************************************************************************)
(* C18. For every max_results >= 0 and whatever the pages show, the list   *)
(* search_for_jobs_and_internships returns has at most max_results URLs    *)
(* and no URL twice; each tier search returns at most its own max_results  *)
(* URLs, none twice, and extracts a page only while it has checked fewer   *)
(* than 3 pages, so at most 3.                                             *)
(***************************************************************************)
C18_ResultsBoundedAndDistinct ==
    \A t \in Invocations :
        /\ th[t].pc \in {"finally", "done"} =>
              /\ Len(th[t].result[1]) <= th[t].max_results
              /\ NoDuplicates(th[t].result[1])
        /\ Len(th[t].tier_ret) <= th[t].quota
        /\ NoDuplicates(th[t].tier_ret)
        /\ th[t].pc = "extract" => th[t].pages_checked < max_pages

\* a search asked for 4 URLs has collected 5 and returns 4 of them, its
\* last tier having returned its full quota
C18_Witness ==
    \E t \in Invocations :
        /\ th[t].pc = "done"
        /\ th[t].max_results = 4
        /\ Cardinality(th[t].all_job_urls) = 5
        /\ Len(th[t].result[1]) = 4

(***************************************************************************)
(* LinkedInEnhancedScraper._validate_job_relevance as a function of its    *)
(* arguments                                                               *)
(***************************************************************************)
\* the words keywords are made of, the titles and the companies tried
MaxRelTerms == 2
RelTerms == { <<"Q", "A">>, <<"P", "y", "t", "h", "o", "n">>, <<"D", "e", "v", "e", "l", "o", "p", "e", "r", "s">>, <<"I", "n", "t", "e", "r", "n", "s", "h", "i", "p">> }
RelKeywords == { Join(ts, <<" ">>) : ts \in UNION { [1..n -> RelTerms] : n \in 0..MaxRelTerms } }
RelTitles == { <<"Q", "A", " ", "E", "n", "g", "i", "n", "e", "e", "r">>,
               <<"P", "y", "t", "h", "o", "n", " ", "D", "e", "v", "e", "l", "o", "p", "e", "r">>,
               <<"S", "a", "l", "e", "s", " ", "I", "n", "t", "e", "r", "n">>,
               <<"P", "o", "s", "i", "t", "i", "o", "n">> }
RelCompanies == { <<"I", "n", "f", "o", "s", "y", "s">>, <<"P", "y", "t", "h", "o", "n", " ", "L", "a", "b", "s">>, <<"C", "o", "m", "p", "a", "n", "y">> }

InitRel ==
    /\ args \in [title : RelTitles, company : RelCompanies, keyword : RelKeywords]
    /\ ret = NoRet
    /\ IdleSearch
    /\ IdleBot

ValidateJobRelevance ==
    /\ ret = NoRet
    /\ ret' = <<_validate_job_relevance([title |-> args.title, company |-> args.company],
                                        args.keyword)>>
    /\ UNCHANGED <<args, searchVars, botVars>>

NextRel == ValidateJobRelevance

SpecRel == InitRel /\ [][NextRel]_vars

\* a term of the keyword, of at least min_len characters, occurs in the
\* title or in the company, letter case apart
TermOccurs(min_len) ==
    \E i \in 1..Len(Words(Lower(args.keyword))) :
        LET term == Words(Lower(args.keyword))[i]
        IN  /\ Len(term) >= min_len
            /\ \/ Contains(Lower(args.title), term)
               \/ Contains(Lower(args.company), term)

(***************************************************************************)
(* C19 (as stated). _validate_job_relevance accepts a job if and only if   *)
(* at least one whitespace-separated term of the keyword occurs, case-     *)
(* insensitively, as a substring of the job's title or of its company.     *)
(***************************************************************************)
C19_Original_AcceptsIffATermOccurs ==
    ret # NoRet => (ret[1] <=> TermOccurs(0))

(***************************************************************************)
(* C19 (amended). _validate_job_relevance accepts a job if and only if a   *)
(* whitespace-separated term of the keyword that is at least 3 characters  *)
(* long occurs, case-insensitively, as a substring of the job's title or   *)
(* of its company, or one of the words "developer", "engineer", "intern"   *)
(* occurs, case-insensitively, both in the keyword and in the title.       *)
(***************************************************************************)
C19_AcceptsIffAMeaningfulTermOccurs ==
    ret # NoRet =>
        (ret[1] <=>
            \/ TermOccurs(3)
            \/ \E w \in {S_developer, S_engineer, S_intern} :
                 Contains(Lower(args.keyword), w) /\ Contains(Lower(args.title), w))

\* the two-letter keyword "QA" does not make the posting "QA Engineer"
\* relevant
C19_Witness ==
    /\ ret = <<FALSE>>
    /\ args.keyword = <<"Q", "A">>
    /\ args.title = <<"Q", "A", " ", "E", "n", "g", "i", "n", "e", "e", "r">>

\* the postings of a list whose URL is, or is not, the URL of a job element
\* of the site
RealIn(jobs) == {i \in 1..Len(jobs) : jobs[i].url \in RealUrls}
SynthesizedIn(jobs) == {i \in 1..Len(jobs) : jobs[i].url \notin RealUrls}

WindowFilters == <<"r86400", "r172800", "r604800">>

MaxWinUrls == 2

\* the lists a search can return: no posting, or up to MaxWinUrls postings
WinUrlLists ==
    { l \in UNION { [1..n -> 1..MaxWinUrls] : n \in 0..MaxWinUrls } :
        NoDuplicates(l) }

\* `if job_urls:` (line 257 and line 281)
FoundJobs_Never(job_urls) == FALSE

FoundJobs(job_urls) == job_urls # <<>>

\* lines 308-312: the loop over time_filters stops at the first entry for
\* which job_urls is non-empty, a test that does not depend on the entry
successful_timeframe(job_urls) ==
    LET hits == { i \in 1..Len(time_filters) : FoundJobs(job_urls) }
    IN  IF hits = {} THEN "recent postings"
        ELSE time_filters[CHOOSE i \in hits : \A j \in hits : i <= j]

WinLocals(user_id, job_type) ==
    [ user_id |-> user_id, job_type |-> job_type, pc |-> "start", i |-> 1,
      job_urls |-> <<>>, sent |-> <<>> ]

\* lines 200-228: the scraper is built and the loop is entered; an
\* exception here goes to the outer handler
WinStart ==
    /\ th[1].pc = "start"
    /\ \E scraper_ok \in BOOLEAN :
         th' = <<[th[1] EXCEPT !.pc = IF scraper_ok THEN "loop" ELSE "except"]>>
    /\ UNCHANGED <<pureVars, site, driver, sessions, calls, callbacks, botVars>>

\* lines 233-278: one pass of the loop; the search returns a list or raises
WinSearch ==
    /\ th[1].pc = "loop"
    /\ th[1].i <= Len(time_filters)
    /\ \E raises \in BOOLEAN, found \in WinUrlLists :
         LET l == th[1]
             method == IF l.job_type = "job" THEN "search_jobs"
                       ELSE "search_internships"
             job_urls == IF raises THEN l.job_urls ELSE found
             stop == ~raises /\ FoundJobs(job_urls)
         IN  /\ calls' = Append(calls,
                   [ method |-> method, time_filter |-> WindowFilters[l.i],
                     time_description |-> time_filters[l.i],
                     outcome |-> IF raises THEN "raises"
                                 ELSE IF found = <<>> THEN "empty" ELSE "urls",
                     urls |-> IF raises THEN <<>> ELSE found ])
             /\ th' = <<[l EXCEPT !.job_urls = job_urls,
                                  !.i = IF stop THEN l.i ELSE l.i + 1,
                                  !.pc = IF stop \/ l.i = Len(time_filters)
                                         THEN "process" ELSE "loop"]>>
    /\ UNCHANGED <<pureVars, site, driver, sessions, callbacks, botVars>>

\* lines 281-331: the results message with its Search Range
WinSendResults ==
    /\ th[1].pc = "process"
    /\ FoundJobs(th[1].job_urls)
    /\ \E reply_ok \in BOOLEAN :
         th' = <<[th[1] EXCEPT
                    !.pc = IF reply_ok THEN "finally" ELSE "except",
                    !.sent = IF reply_ok
                             THEN Append(@, [ kind |-> "results",
                                     search_range |->
                                       successful_timeframe(th[1].job_urls),
                                     count |-> Len(th[1].job_urls) ])
                             ELSE @]>>
    /\ UNCHANGED <<pureVars, site, driver, sessions, calls, callbacks, botVars>>

\* lines 332-360: the no-results message
WinSendNoResults ==
    /\ th[1].pc = "process"
    /\ ~FoundJobs(th[1].job_urls)
    /\ \E reply_ok \in BOOLEAN :
         th' = <<[th[1] EXCEPT
                    !.pc = IF reply_ok THEN "finally" ELSE "except",
                    !.sent = IF reply_ok
                             THEN Append(@, [ kind |-> "no_results",
                                     search_range |-> "", count |-> 0 ])
                             ELSE @]>>
    /\ UNCHANGED <<pureVars, site, driver, sessions, calls, callbacks, botVars>>

\* lines 362-376: the error message of the outer handler; when sending it
\* fails the exception leaves perform_search through the finally clause
WinExcept ==
    /\ th[1].pc = "except"
    /\ \E reply_ok \in BOOLEAN :
         th' = <<[th[1] EXCEPT
                    !.pc = "finally",
                    !.sent = IF reply_ok
                             THEN Append(@, [ kind |-> "error",
                                     search_range |-> "", count |-> 0 ])
                             ELSE @]>>
    /\ UNCHANGED <<pureVars, site, driver, sessions, calls, callbacks, botVars>>

\* lines 377-379: the conversation data is cleared
WinFinally ==
    /\ th[1].pc = "finally"
    /\ th' = <<[th[1] EXCEPT !.pc = "done"]>>
    /\ _user_data' = clear_user_data(_user_data, th[1].user_id)
    /\ UNCHANGED <<pureVars, site, driver, sessions, calls, callbacks, handled>>

\* perform_search is called by handle_role_input with the job type and the
\* role stored (lines 158-180)
InitWin ==
    /\ site = {}
    /\ driver = None
    /\ sessions = <<>>
    /\ calls = <<>>
    /\ callbacks = <<>>
    /\ args = <<>>
    /\ ret = NoRet
    /\ handled = <<>>
    /\ \E user_id \in Users, job_type \in {"job", "internship"},
          text \in RoleTexts :
         /\ Strip(text) # <<>>
         /\ _user_data = set_user_data(
                set_user_data({}, user_id, "job_type", job_type),
                user_id, "role", Strip(text))
         /\ th = <<WinLocals(user_id, job_type)>>

NextWin ==
    \/ WinStart
    \/ WinSearch
    \/ WinSendResults
    \/ WinSendNoResults
    \/ WinExcept
    \/ WinFinally

SpecWin == InitWin /\ [][NextWin]_vars

\* the query that left its list in job_urls
ProducingCalls ==
    { k \in 1..Len(calls) :
        calls[k].outcome = "urls" /\ calls[k].urls = th[1].job_urls }

MessagesSent(kind) ==
    { k \in 1..Len(th[1].sent) : th[1].sent[k].kind = kind }

\* C21: the windows are queried in the order last 24 hours, last 2 days,
\* last 7 days; a wider window is queried only after every narrower one
\* returned no URLs or raised, none is queried after one returned URLs, and
\* the no-results message is sent only after all three windows were tried
C21_WindowsQueriedInOrder ==
    /\ Len(calls) <= Len(time_filters)
    /\ \A k \in 1..Len(calls) :
         /\ calls[k].time_description = time_filters[k]
         /\ calls[k].time_filter = WindowFilters[k]
         /\ \A j \in 1..(k - 1) : calls[j].outcome \in {"empty", "raises"}
    /\ MessagesSent("no_results") # {} =>
         /\ Len(calls) = Len(time_filters)
         /\ \A k \in 1..Len(calls) : calls[k].outcome \in {"empty", "raises"}

C21_Witness ==
    /\ th[1].pc = "done"
    /\ MessagesSent("no_results") # {}
    /\ Len(calls) = 3
    /\ calls[2].outcome = "raises"

\* C22: the Search Range of the results message is the time window whose
\* query produced the returned URLs
C22_SearchRangeIsTheProducingWindow ==
    \A m \in MessagesSent("results") :
        /\ ProducingCalls # {}
        /\ \A k \in ProducingCalls :
             th[1].sent[m].search_range = calls[k].time_description

\* ---------------------------------------------------------------------
\* The handlers under the ConversationHandler built by
\* ConversationStateManager.get_conversation_handler
\* (src/src/bot/handlers.py, lines 466-500) and the /search command of
\* LinkedInJobBot (src/src/bot/main.py, lines 59-71)
\* ---------------------------------------------------------------------

MaxDialogUsers == 1

\* the users who talk to the bot
DialogUsers == 1..MaxDialogUsers

\* the conversation state of a user; END when there is no conversation
StateOf(user_id) == th[user_id].state

\* /start: the entry point when there is no conversation (line 471), the
\* first fallback in every state (line 493)
OnStartCommand(user_id) ==
    /\ StateOf(user_id) \in {END, "SELECTING_JOB_TYPE", "ENTERING_ROLE", "SEARCHING"}
    /\ start_command(user_id)

\* a button with callback_data job or internship: handled in
\* SELECTING_JOB_TYPE only (lines 473-478); the pattern lets no other data
\* through
OnCallbackQuery(user_id) ==
    /\ StateOf(user_id) = "SELECTING_JOB_TYPE"
    /\ handle_job_type_selection(user_id)
    /\ handled'[1].outcome # "invalid_state"

\* a text message that is no command: the handler of the state (lines
\* 479-490), the second fallback in a state that has none for it (line
\* 494), ignored when there is no conversation
OnTextMessage(user_id) ==
    /\ StateOf(user_id) # END
    /\ IF StateOf(user_id) = "ENTERING_ROLE" THEN handle_role_input(user_id)
       ELSE IF StateOf(user_id) = "SEARCHING" THEN handle_search_request(user_id)
       ELSE handle_fallback(user_id)

\* any other message in a conversation, commands other than /start
\* included: the second fallback (line 494)
OnOtherMessage(user_id) ==
    /\ StateOf(user_id) # END
    /\ handle_fallback(user_id)

\* /search outside a conversation reaches the handler registered after the
\* ConversationHandler (main.py, lines 68-71 and 84-91)
OnSearchCommand(user_id) ==
    /\ StateOf(user_id) = END
    /\ search_jobs_and_internships(user_id)

\* conversation_timeout (line 496): the conversation is ended; the table
\* has no handler for the timeout, so handle_timeout is not called
OnConversationTimeout(user_id) ==
    /\ StateOf(user_id) # END
    /\ th' = [th EXCEPT ![user_id].state = END]
    /\ UNCHANGED <<pureVars, site, driver, sessions, calls, callbacks, botVars>>

InitDialog ==
    /\ args = <<>>
    /\ ret = NoRet
    /\ site = {}
    /\ driver = None
    /\ sessions = <<>>
    /\ calls = <<>>
    /\ callbacks = <<>>
    /\ IdleBot
    /\ th = [user_id \in DialogUsers |->
                [state |-> END, result |-> END, since_start |-> <<>>]]

NextDialog ==
    \/ \E user_id \in DialogUsers : OnStartCommand(user_id)
    \/ \E user_id \in DialogUsers : OnCallbackQuery(user_id)
    \/ \E user_id \in DialogUsers : OnTextMessage(user_id)
    \/ \E user_id \in DialogUsers : OnOtherMessage(user_id)
    \/ \E user_id \in DialogUsers : OnSearchCommand(user_id)
    \/ \E user_id \in DialogUsers : OnConversationTimeout(user_id)

SpecDialog == InitDialog /\ [][NextDialog]_vars

\* a search was started in the handler call that ended last, for user_id
SearchStartedFor(user_id) ==
    /\ handled # <<>>
    /\ handled[1].user_id = user_id
    /\ \/ /\ handled[1].handler = "handle_role_input"
          /\ handled[1].outcome \in {"results", "no_results", "search_error"}
       \/ /\ handled[1].handler = "search_jobs_and_internships"
          /\ handled[1].outcome = "no_results"

\* a search is started only after a job type and then a role were stored
\* since the user's last /start
SearchOnlyAfterTypeThenRole ==
    \A user_id \in DialogUsers :
        SearchStartedFor(user_id) =>
            th[user_id].since_start = <<"job_type", "role">>

\* a role message of a user with no job type stored gets the invalid-state
\* message and ends the conversation without a search
RoleWithoutTypeEnds(user_id) ==
    (/\ StateOf(user_id) = "ENTERING_ROLE"
     /\ get_user_value(_user_data, user_id, "job_type") = {}
     /\ handle_role_input(user_id))
        => /\ handled'[1].outcome = "invalid_state"
           /\ th'[user_id].state = END

\* /start leaves no job type and no role stored
StartDiscards(user_id) ==
    start_command(user_id) =>
        get_user_value(_user_data', user_id, "job_type")
            \cup get_user_value(_user_data', user_id, "role") = {}

\* the role message of the claim as the code treats it: an empty role is
\* asked for again, a non-empty one takes the invalid-state branch, which
\* ends the conversation unless the handler raises
RoleWithoutTypeNeverSearches(user_id) ==
    (/\ StateOf(user_id) = "ENTERING_ROLE"
     /\ get_user_value(_user_data, user_id, "job_type") = {}
     /\ handle_role_input(user_id))
        => /\ handled'[1].outcome \in {"empty_role", "invalid_state"}
           /\ ~SearchStartedFor(user_id)'
           /\ handled'[1].outcome = "invalid_state" =>
                \/ th'[user_id].result = "raised"
                \/ th'[user_id].state = END

SearchingNeverEntered ==
    \A user_id \in DialogUsers :
        StateOf(user_id) \in {"SELECTING_JOB_TYPE", "ENTERING_ROLE", END}

\* the handler call that ended last handled a non-empty role
RoleHandled ==
    /\ handled # <<>>
    /\ handled[1].handler = "handle_role_input"
    /\ handled[1].outcome # "empty_role"

UserIds(store) == {e.user_id : e \in store}

\* the handler call that ends in this step only read the store: it is
\* handle_search_request (get_user_value, lines 387-388), or
\* search_jobs_and_internships leaving at its invalid-state return
\* (get_conversation_data, main.py lines 109-114)
OnlyReads ==
    /\ handled' # <<>>
    /\ \/ handled'[1].handler = "handle_search_request"
       \/ /\ handled'[1].handler = "search_jobs_and_internships"
          /\ handled'[1].outcome = "invalid_state"

\* C25: reading conversation data never changes the store: get_user_value
\* and get_conversation_data leave the set of user ids that have a record
\* as it was, so a user with no record has none after any reads
C25_ReadsLeaveUserIdsUnchanged ==
    [][ OnlyReads => UserIds(_user_data') = UserIds(_user_data) ]_vars

\* the test of extractJobDetails for a generated URL (messages.py, line 254)
IsGeneratedUrl(job_url) ==
    Contains(job_url, S_view_39) \/ Contains(job_url, S_view_40)

\* C26: every URL produced by _generate_realistic_jobs is recognised by
\* extractJobDetails as a generated URL, for every base id of the
\* generator's range and every index 0..4
C26_GeneratedUrlsAreRecognised ==
    ret # NoRet =>
        \A k \in 1..Len(ret[1]) : IsGeneratedUrl(ret[1][k].url)

\* C27: for every max_results >= 1, if the tiers' results pages offer
\* postings (every page loads, is read without failure and shows at least
\* one posting), search_for_jobs_and_internships returns a non-empty list:
\* the per-tier quotas never stop an available posting from being collected
C27_QuotasLetAPostingThrough ==
    \A t \in Invocations :
        (/\ th[t].pc = "done"
         /\ th[t].max_results >= 1
         /\ site # {}
         /\ ~th[t].hindered
         /\ ~th[t].raised)
            => th[t].result # << <<>> >>

\* ---------------------------------------------------------------------
\* linkedin_fixed.py: _extract_job_urls_streaming step by step (lines
\* 108-206).  A recursive call (lines 190-192) runs on the same driver,
\* callback and set, with max_results - found_count; when it returns, the
\* caller appends its URLs (line 193) and returns (line 206), so the
\* frames below the innermost one hold nothing but their part of job_urls,
\* kept here as one list.
\* ---------------------------------------------------------------------

\* what the page answers when the "Show more jobs" button is looked for
\* (lines 181-186): find_element raises, or the button is there, enabled
\* or not
ShowMoreButtons == {"absent", "disabled", "enabled"}

\* the sets a caller has collected before the call
KnownUrlSets == SUBSET { <<"a">>, <<"b">> }

ShowMoreLocals(max_results, all_found_urls, job_callback) ==
    [ pc |-> "wait", max_results |-> max_results, found_count |-> 0,
      job_urls |-> <<>>, all_found_urls |-> all_found_urls,
      job_callback |-> job_callback ]

\* lines 132-170 of the innermost call: the wait for the list, then the
\* loop over the job links the page shows now
ShowMoreExtract ==
    /\ th[1].pc = "wait"
    /\ \E listed \in BOOLEAN, job_elements \in FixedElements :
         LET l == th[1]
             r == FixedElementLoop(job_elements,
                      [job_urls |-> <<>>, all_found_urls |-> l.all_found_urls,
                       found_count |-> 0],
                      l.max_results)
         IN  IF ~listed
             THEN \* TimeoutException (lines 201-202)
                  /\ th' = <<[l EXCEPT !.pc = "return"]>>
                  /\ UNCHANGED callbacks
             ELSE /\ th' = <<[l EXCEPT
                               !.job_urls = @ \o r.job_urls,
                               !.all_found_urls = r.all_found_urls,
                               !.found_count = r.found_count,
                               !.pc = IF r.found_count < l.max_results
                                      THEN "scroll" ELSE "return"]>>
                  /\ callbacks' = IF l.job_callback THEN callbacks \o r.job_urls
                                  ELSE callbacks
    /\ UNCHANGED <<pureVars, botVars, site, driver, sessions, calls>>

\* lines 173-199: the page is scrolled and the button looked for; an
\* enabled button is clicked and the method calls itself
ShowMoreClick ==
    /\ th[1].pc = "scroll"
    /\ \E scroll_ok \in BOOLEAN, button \in ShowMoreButtons :
         LET l == th[1]
         IN  th' = <<IF scroll_ok /\ button = "enabled"
                     THEN [l EXCEPT !.max_results = @ - l.found_count,
                                    !.found_count = 0, !.pc = "wait"]
                     ELSE [l EXCEPT !.pc = "return"]>>
    /\ UNCHANGED <<pureVars, botVars, site, driver, sessions, calls, callbacks>>

\* line 206 of the innermost call, then lines 193 and 206 of its callers
ShowMoreReturn ==
    /\ th[1].pc = "return"
    /\ th' = <<[th[1] EXCEPT !.pc = "done"]>>
    /\ ret' = <<th[1].job_urls>>
    /\ UNCHANGED <<args, botVars, site, driver, sessions, calls, callbacks>>

\* the call of _search_jobs_by_criteria_streaming (lines 269-272)
InitShowMore ==
    /\ args \in [max_results : 0..MaxFixedResults, all_found_urls : KnownUrlSets,
                 job_callback : BOOLEAN]
    /\ ret = NoRet
    /\ th = <<ShowMoreLocals(args.max_results, args.all_found_urls,
                             args.job_callback)>>
    /\ site = {}
    /\ driver = None
    /\ sessions = <<>>
    /\ calls = <<>>
    /\ callbacks = <<>>
    /\ IdleBot

NextShowMore ==
    \/ ShowMoreExtract
    \/ ShowMoreClick
    \/ ShowMoreReturn

\* every step the coroutine can take is taken in the end: the event loop
\* resumes it after each sleep
SpecShowMore == InitShowMore /\ [][NextShowMore]_vars /\ WF_vars(NextShowMore)

C29_HandedOutSessionNotQuit ==
    \A t \in Invocations :
        (th[t].entry = "stream" /\ th[t].drv # None) =>
            /\ sessions[th[t].drv].quit_by = {}
            /\ sessions[th[t].drv].open
====
